---- MODULE Spec2Model ----
(***************************************************************************)
(* Model of the tracer package of niwini/nodejs-commons:                   *)
(*   - the hash codec (hashEncode / hashDecode, lib/utils),                *)
(*   - TraceContext (sharedInit, constructor, call stack chain, toHash,    *)
(*     fromHash, traceStart, traceFinish),                                 *)
(*   - Logger._log and the function instrumentation engine traceFn.        *)
(*                                                                         *)
(* JavaScript values are tagged records [t |-> type, v |-> payload]; an    *)
(* object's payload is a function from its keys to values, so that TLA+    *)
(* equality is lodash deep equality.                                       *)
(***************************************************************************)
EXTENDS Integers, Sequences, FiniteSets, TLC

VARIABLES
  \* ---- hash codec harness (SpecHash)
  hIn,        \* the snapshot handed to hashEncode
  hTok,       \* the token handed to hashDecode
  hOut,       \* the outcome of hashDecode
  hpc,        \* "init" | "encoded" | "decoded" | "rawDecoded"
  \* ---- the process: TraceContext's statics and the objects alive
  st,         \* the static fields of TraceContext and Logger
  ctxs,       \* the TraceContext instances, in order of construction
  origin,     \* history: origin[i] is the context whose hash i was built from
  inits,      \* how often each driver's init() has run
  initLog,    \* history: the first sharedInit config, the calls, the results
  \* ---- the drivers and the instrumented calls
  spans,      \* the spans the trace driver has made
  dlog,       \* the records the log driver has received
  calls,      \* the invocations of the traceFn wrapper
  \* ---- the objects held as data (SpecData)
  objs,       \* the object store: objs[r] is the object a reference r names
  dataRef,    \* dataRef[i] is what the data field of context i holds
  mut,        \* history: the last mutation made through a context's data
  \* ---- loggers (SpecLog)
  loggers,    \* the Logger instances, in order of construction
  lcall,      \* the latest call on a logger or a context and what it did
  \* ---- trace driver adapters (SpecSpan)
  adapted,    \* the spans the adapters started, in order
  wrote,      \* the latest assignment of span.status and how it ended
  \* ---- wrapping (SpecWrap)
  wrapped,    \* the functions handed to traceFn and what came of each
  \* ---- the Kafka client (SpecKafka)
  kafka,      \* the client: its listeners, and what it delivered and sent
  \* ---- the clients of the other packages
  thrift,     \* a ThriftService: its connections, timers and promise
  mongo,      \* a MongoClient: its connect calls and the driver's
  redis       \* RedisClient._drivers and the calls of createDriver

hvars == <<hIn, hTok, hOut, hpc>>
pvars == <<st, ctxs, origin, inits, initLog>>
tvars == <<spans, dlog, calls>>
dvars == <<objs, dataRef, mut>>
lvars == <<loggers, lcall>>
svars == <<adapted, wrote>>
wvars == <<wrapped>>
kvars == <<kafka>>
nvars == <<thrift, mongo, redis>>

vars == <<hIn, hTok, hOut, hpc, st, ctxs, origin, inits, initLog,
          spans, dlog, calls, objs, dataRef, mut, loggers, lcall, adapted,
          wrote, wrapped, kafka, thrift, mongo, redis>>

(***************************************************************************)
(* Bounds of the model.                                                    *)
(***************************************************************************)
\* longest callStackNamesChain of a snapshot drawn as an input
MaxChain == 2

(***************************************************************************)
(* JavaScript values.                                                      *)
(***************************************************************************)
Undefined == [t |-> "undefined"]
Null == [t |-> "null"]
NaN == [t |-> "number", v |-> "NaN"]
Str(s) == [t |-> "string", v |-> s]
Num(s) == [t |-> "number", v |-> s]
Obj(r) == [t |-> "object", v |-> r]
Arr(s) == [t |-> "array", v |-> s]
\* the text of a JavaScript string that holds serialised JSON: its tokens
Text(toks) == [t |-> "text", v |-> toks]
\* the text of a JavaScript string seen as a hash: its chunks
HashStr(chunks) == [t |-> "hash", v |-> chunks]
ErrorObj(name) == [t |-> "error", v |-> name]

EmptyRec == [k \in {} |-> Undefined]

\* o.k  (undefined when the key is absent)
Get(o, k) ==
  IF o.t = "object" /\ k \in DOMAIN o.v THEN o.v[k] ELSE Undefined

\* a completion: a returned value or a thrown error
Return(v) == [kind |-> "return", val |-> v]
Throw(e) == [kind |-> "throw", val |-> e]

(***************************************************************************)
(* JSON.stringify / JSON.parse.  A JSON text is a sequence of tokens.      *)
(***************************************************************************)
Tok(k, v) == [k |-> k, v |-> v]

\* every object key the model uses, in serialisation order
KeyOrder ==
  << "callStackNamesChain", "className", "data", "fnName", "id",
     "serviceName", "spanHash", "a", "b", "$ctx", "$traceHash",
     "__nsbKakfaType", "value", "body", "timestamp", "type", "evtName",
     "topic", "env" >>

ObjectKeys(r) == SelectSeq(KeyOrder, LAMBDA k : k \in DOMAIN r)

RECURSIVE JsonTokens(_)
RECURSIVE JsonMembers(_, _)
RECURSIVE JsonElements(_)

\* JSON.stringify of a value that is not undefined at the top level
JsonTokens(x) ==
  CASE x.t = "object" ->
         <<Tok("punct", "{")>> \o JsonMembers(x.v, ObjectKeys(x.v))
                               \o <<Tok("punct", "}")>>
    [] x.t = "array" ->
         <<Tok("punct", "[")>> \o JsonElements(x.v) \o <<Tok("punct", "]")>>
    [] x.t = "string" -> <<Tok("string", x.v)>>
    [] x.t = "number" ->
         IF x.v = "NaN" THEN <<Tok("null", "null")>> ELSE <<Tok("number", x.v)>>
    [] x.t = "null" -> <<Tok("null", "null")>>
    [] OTHER -> <<>>

\* the members of an object: a member whose value is undefined is omitted
JsonMembers(r, keys) ==
  IF keys = <<>> THEN <<>>
  ELSE LET k == Head(keys)
       IN  (IF r[k].t = "undefined" THEN <<>>
            ELSE <<Tok("key", k)>> \o JsonTokens(r[k]))
           \o JsonMembers(r, Tail(keys))

\* the elements of an array: an undefined element is written as null
JsonElements(s) ==
  IF s = <<>> THEN <<>>
  ELSE (IF Head(s).t = "undefined" THEN <<Tok("null", "null")>>
        ELSE JsonTokens(Head(s)))
       \o JsonElements(Tail(s))

JsonStringify(x) == Text(JsonTokens(x))

RECURSIVE ParseValue(_)
RECURSIVE ParseMembers(_, _)
RECURSIVE ParseElements(_, _)

ParseFail == [ok |-> FALSE, val |-> Undefined, rest |-> <<>>]

\* recursive descent over the tokens: [ok, val, rest]
ParseValue(toks) ==
  IF toks = <<>> THEN ParseFail
  ELSE LET h == Head(toks) IN
    CASE h.k = "punct" /\ h.v = "{" -> ParseMembers(Tail(toks), EmptyRec)
      [] h.k = "punct" /\ h.v = "[" -> ParseElements(Tail(toks), <<>>)
      [] h.k = "string" -> [ok |-> TRUE, val |-> Str(h.v), rest |-> Tail(toks)]
      [] h.k = "number" -> [ok |-> TRUE, val |-> Num(h.v), rest |-> Tail(toks)]
      [] h.k = "null" -> [ok |-> TRUE, val |-> Null, rest |-> Tail(toks)]
      [] OTHER -> ParseFail

ParseMembers(toks, acc) ==
  IF toks = <<>> THEN ParseFail
  ELSE LET h == Head(toks) IN
    IF h.k = "punct" /\ h.v = "}"
    THEN [ok |-> TRUE, val |-> Obj(acc), rest |-> Tail(toks)]
    ELSE IF h.k = "key"
    THEN LET r == ParseValue(Tail(toks)) IN
         IF r.ok
         THEN ParseMembers(r.rest,
                [k \in DOMAIN acc \cup {h.v} |->
                   IF k = h.v THEN r.val ELSE acc[k]])
         ELSE ParseFail
    ELSE ParseFail

ParseElements(toks, acc) ==
  IF toks = <<>> THEN ParseFail
  ELSE LET h == Head(toks) IN
    IF h.k = "punct" /\ h.v = "]"
    THEN [ok |-> TRUE, val |-> Arr(acc), rest |-> Tail(toks)]
    ELSE LET r == ParseValue(toks) IN
         IF r.ok THEN ParseElements(r.rest, Append(acc, r.val))
         ELSE ParseFail

\* JSON.parse(x): null is converted to the text "null"; a text that is not
\* one complete JSON value is a SyntaxError
JsonParse(x) ==
  IF x.t = "null" THEN Return(Null)
  ELSE LET r == ParseValue(x.v) IN
       IF r.ok /\ r.rest = <<>> THEN Return(r.val)
       ELSE Throw(ErrorObj("SyntaxError"))

(***************************************************************************)
(* lz-string as hashEncode / hashDecode use it.  A hash is a sequence of   *)
(* chunks: the literal prefix, base64 chunks written by the compressor     *)
(* (one per run of equal tokens), and characters no compressor output      *)
(* holds.  compressToBase64 is lossless; decompressFromBase64 returns      *)
(* null for the empty string, and null or a damaged text for an input the  *)
(* compressor never wrote.                                                 *)
(***************************************************************************)
Chunk(k, v, n) == [k |-> k, v |-> v, n |-> n]

RECURSIVE CompressToBase64(_)
CompressToBase64(toks) ==
  IF toks = <<>> THEN <<>>
  ELSE LET rest == CompressToBase64(Tail(toks)) IN
       IF rest # <<>> /\ Head(rest).v = Head(toks)
       THEN <<Chunk("b64", Head(toks), Head(rest).n + 1)>> \o Tail(rest)
       ELSE <<Chunk("b64", Head(toks), 1)>> \o rest

RECURSIVE Expand(_)
Expand(chunks) ==
  IF chunks = <<>> THEN <<>>
  ELSE LET c == Head(chunks) IN
       [i \in 1..c.n |-> c.v] \o Expand(Tail(chunks))

\* the characters of a chunk the decompressor cannot read: "?" stands for
\* an input on which lz-string answers null, anything else for one on which
\* it answers the empty string
JunkNull == Chunk("junk", Tok("lit", "?"), 1)
JunkEmpty == Chunk("junk", Tok("lit", "!"), 1)

DecompressFromBase64(chunks) ==
  IF chunks = <<>> THEN Null
  ELSE IF \A i \in 1..Len(chunks) : chunks[i].k = "b64"
  THEN Text(Expand(chunks))
  ELSE LET bad == CHOOSE i \in 1..Len(chunks) :
                    /\ chunks[i].k # "b64"
                    /\ \A j \in 1..(i - 1) : chunks[j].k = "b64"
       IN  IF chunks[bad] = JunkNull THEN Null ELSE Text(<<>>)

(***************************************************************************)
(* The hash codec.                                                         *)
(***************************************************************************)
TRACE_HASH_PREFIX == Chunk("lit", Tok("lit", "$TRACE_HASH_"), 1)

\* String.prototype.startsWith(TRACE_HASH_PREFIX)
StartsWithPrefix(h) == h.v # <<>> /\ Head(h.v) = TRACE_HASH_PREFIX

\* String.prototype.replace(TRACE_HASH_PREFIX, ""): the first occurrence of
\* the pattern, wherever it is, is removed
ReplacePrefix(chunks) ==
  IF \E i \in 1..Len(chunks) : chunks[i] = TRACE_HASH_PREFIX
  THEN LET i == CHOOSE i \in 1..Len(chunks) :
                  /\ chunks[i] = TRACE_HASH_PREFIX
                  /\ \A j \in 1..(i - 1) : chunks[j] # TRACE_HASH_PREFIX
       IN  SubSeq(chunks, 1, i - 1) \o SubSeq(chunks, i + 1, Len(chunks))
  ELSE chunks

hashEncode(hashData) ==
  LET base64Hash == CompressToBase64(JsonStringify(hashData).v)
  IN  HashStr(<<TRACE_HASH_PREFIX>> \o base64Hash)

hashDecodeKeepPrefix(hash) ==
  JsonParse(DecompressFromBase64(hash.v))

\* a completion: Return(hashData), or Throw(SyntaxError) from JSON.parse
hashDecode(hash) ==
  LET base64Hash == ReplacePrefix(hash.v)
      hashDataStr == DecompressFromBase64(base64Hash)
  IN  JsonParse(hashDataStr)

(***************************************************************************)
(* JavaScript operators the code uses.                                     *)
(***************************************************************************)
Bool(b) == [t |-> "boolean", v |-> b]
CtxRef(i) == [t |-> "ctx", v |-> i]
SpanRef(i) == [t |-> "span", v |-> i]
TraceDriver(n) == [t |-> "traceDriver", v |-> n]
LogDriver(n) == [t |-> "logDriver", v |-> n]

Nullish(x) == x.t \in {"undefined", "null"}

\* x ?? d
Coalesce(x, d) == IF Nullish(x) THEN d ELSE x

\* _.defaultTo(x, d)
DefaultTo(x, d) == IF Nullish(x) \/ x = NaN THEN d ELSE x

\* the truth value of x in a condition
Truthy(x) ==
  CASE Nullish(x) -> FALSE
    [] x.t = "boolean" -> x.v
    [] x.t = "string" -> x.v # ""
    [] x.t = "hash" -> x.v # <<>>
    [] x.t = "number" -> x.v \notin {"NaN", "0"}
    [] OTHER -> TRUE

\* x || d
OrElse(x, d) == IF Truthy(x) THEN x ELSE d

\* Array.prototype.join: undefined and null elements are written empty
RECURSIVE Join(_, _)
Join(strs, sep) ==
  IF strs = <<>> THEN ""
  ELSE IF Len(strs) = 1 THEN Head(strs)
  ELSE Head(strs) \o sep \o Join(Tail(strs), sep)

ElemText(x) == IF x.t = "string" THEN x.v ELSE ""

\* `${x}` in a template literal
TemplateText(x) == IF x.t = "string" THEN x.v ELSE x.t

(***************************************************************************)
(* _.merge(dst, src) on plain objects: src wins on the keys it defines;    *)
(* nested plain objects are merged recursively into fresh objects.         *)
(***************************************************************************)
RECURSIVE MergeInto(_, _)
MergeInto(dst, src) ==
  IF src.t # "object" THEN dst
  ELSE [ t |-> dst.t,
         v |-> [k \in DOMAIN dst.v \cup DOMAIN src.v |->
         IF k \notin DOMAIN src.v THEN dst.v[k]
         ELSE LET sv == src.v[k] IN
              IF sv.t = "object"
              THEN MergeInto(IF k \in DOMAIN dst.v
                                /\ dst.v[k].t \in {"object", "instance"}
                             THEN dst.v[k] ELSE Obj(EmptyRec), sv)
              ELSE IF sv.t = "undefined" /\ k \in DOMAIN dst.v THEN dst.v[k]
              ELSE sv] ]

\* _.merge({}, a, b)
Merge3(a, b) == MergeInto(MergeInto(Obj(EmptyRec), a), b)

(***************************************************************************)
(* TraceContext: the static fields, and the instances on the heap.         *)
(***************************************************************************)
AS_ARG == Str("as_last_arg")
IN_FIRST_ARG_OBJECT == Str("in_first_arg_object")

DriverNames == {"T1", "T2", "L1", "console"}

\* the statics as the class declarations initialise them
StaticsAtLoad ==
  [ serviceName |-> Undefined, serviceColor |-> Undefined,
    logLevel |-> Str("info"), shouldLogStartEnd |-> Bool(TRUE),
    traceDriver |-> Undefined, shouldRecordTracing |-> Bool(TRUE),
    logDriver |-> Undefined, shared |-> Undefined, injectMode |-> Undefined,
    loggerLevel |-> Str("info") ]

\* nanoid(): a fresh id for the instance about to be the n-th of the heap
nanoid(heap) == Str("N" \o ToString(Len(heap) + 1))

\* new Logger({driver, level, traceCtx}): the fields the constructor keeps
NewLogger(s, level) ==
  [ driver |-> s.logDriver, level |-> Coalesce(level, s.loggerLevel),
    scope |-> Undefined ]

\* new TraceContext(config) throws a TypeError on a null config (the
\* default {} replaces undefined only)
ConstructorThrows(config) == config.t = "null"

NewTraceContext(s, heap, config) ==
  LET parent == Get(config, "parent")
      own == Get(config, "data")
      pdata == IF Truthy(parent) THEN heap[parent.v].data ELSE Undefined
  IN  [ id |-> Coalesce(Get(config, "id"), nanoid(heap)),
        autoTracing |-> DefaultTo(Get(config, "autoTracing"), Bool(TRUE)),
        serviceName |-> Coalesce(Get(config, "serviceName"), s.serviceName),
        callStackNamesChain |-> Get(config, "callStackNamesChain"),
        className |-> Get(config, "className"),
        fnName |-> Get(config, "fnName"),
        parent |-> parent,
        spanHash |-> Get(config, "spanHash"),
        data |-> IF Truthy(parent) /\ Truthy(pdata)
                 THEN Merge3(own, pdata) ELSE own,
        logger |-> NewLogger(s, s.logLevel),
        span |-> Undefined ]

\* the body of sharedInit's if (!TraceContext._shared)
sharedInitBody(s, heap, ini, config) ==
  LET s1 == [s EXCEPT
               !.serviceName = Get(config, "serviceName"),
               !.serviceColor = Get(config, "serviceColor"),
               !.traceDriver = Get(config, "traceDriver"),
               !.logDriver = Coalesce(Get(config, "logDriver"),
                                      LogDriver("console")),
               !.logLevel = Get(config, "logLevel")]
      shared == NewTraceContext(s1, heap, Obj("fnName" :> Str("main")))
      s2 == [s1 EXCEPT
               !.shared = CtxRef(Len(heap) + 1),
               !.injectMode = Coalesce(Get(config, "injectMode"), AS_ARG),
               !.shouldLogStartEnd =
                  DefaultTo(Get(config, "shouldLogStartEnd"), Bool(TRUE)),
               !.shouldRecordTracing =
                  DefaultTo(Get(config, "shouldRecordTracing"), Bool(TRUE)),
               !.loggerLevel = Get(config, "logLevel")]
      ran == {d \in {s2.traceDriver, s2.logDriver} : Truthy(d)}
  IN  [ st |-> s2,
        ctxs |-> Append(heap, shared),
        inits |-> [n \in DriverNames |->
                     IF \E d \in ran : d.v = n THEN ini[n] + 1 ELSE ini[n]],
        ret |-> s2.shared ]

\* a sharedInit that has lost its guard
sharedInitUnguarded(s, heap, ini, config) ==
  sharedInitBody(s, heap, ini, config)

\* TraceContext.sharedInit(config): [st, ctxs, inits, ret]
sharedInit(s, heap, ini, config) ==
  IF Truthy(s.shared)
  THEN [st |-> s, ctxs |-> heap, inits |-> ini, ret |-> s.shared]
  ELSE sharedInitBody(s, heap, ini, config)

\* this === TraceContext.shared
isShared(s, i) == s.shared = CtxRef(i)

\* the frame a live context contributes to a chain
FrameOf(c) ==
  Obj([ className |-> c.className,
        fnName |-> OrElse(c.fnName, c.id),
        serviceName |-> c.serviceName ])

\* the while loop of _evalCallStackNamesChain: the frames of the ancestors,
\* oldest first, cut at the first ancestor that carries a chain of its own
RECURSIVE AncestorFrames(_, _)
AncestorFrames(heap, p) ==
  IF ~Truthy(p) THEN <<>>
  ELSE LET c == heap[p.v] IN
       IF Truthy(c.callStackNamesChain) THEN c.callStackNamesChain.v
       ELSE AncestorFrames(heap, c.parent) \o <<FrameOf(c)>>

evalCallStackNamesChain(s, heap, i) ==
  IF isShared(s, i) THEN <<>>
  ELSE IF Truthy(heap[i].callStackNamesChain)
  THEN heap[i].callStackNamesChain.v
  ELSE AncestorFrames(heap, heap[i].parent) \o <<FrameOf(heap[i])>>

\* the for loop of the callStackName getter over a chain
RECURSIVE RenderLoop(_, _, _, _, _, _)
RenderLoop(chain, ambient, currServiceName, currClassName, names, currNames) ==
  IF chain = <<>>
  THEN Join(IF currNames # <<>> THEN Append(names, Join(currNames, "."))
            ELSE names, "->")
  ELSE
    LET item == Head(chain)
        cls == Get(item, "className")
        svc == Get(item, "serviceName")
        fn == ElemText(Get(item, "fnName"))
        fresh == cls # currClassName \/ svc # currServiceName
        withClass == IF Truthy(cls) THEN <<cls.v, fn>> ELSE <<fn>>
        itemNames ==
          IF Truthy(svc) /\ svc # currServiceName /\ svc # ambient
          THEN <<"[" \o TemplateText(svc) \o "]" \o Head(withClass)>>
               \o Tail(withClass)
          ELSE withClass
    IN
    IF fresh
    THEN RenderLoop(Tail(chain), ambient, svc, cls,
           IF currNames # <<>> THEN Append(names, Join(currNames, "."))
           ELSE names,
           <<Join(itemNames, ":")>>)
    ELSE RenderLoop(Tail(chain), ambient, currServiceName, currClassName,
           names, Append(currNames, Join(<<fn>>, ":")))

RenderChain(s, chain) ==
  RenderLoop(chain, s.serviceName, s.serviceName, Undefined, <<>>, <<>>)

callStackName(s, heap, i) == RenderChain(s, evalCallStackNamesChain(s, heap, i))

\* span.toHash() of the span a driver made
spanToHash(span) == Str("SPAN" \o ToString(span.v))

\* a toHash that leaves the span out of the snapshot
toHashNoSpan(s, heap, i) ==
  hashEncode(Obj([ callStackNamesChain |->
                     Arr(evalCallStackNamesChain(s, heap, i)),
                   className |-> heap[i].className,
                   data |-> heap[i].data,
                   fnName |-> heap[i].fnName,
                   id |-> heap[i].id,
                   serviceName |-> s.serviceName ]))

toHash(s, heap, i) ==
  LET c == heap[i]
      hashData ==
        [ callStackNamesChain |-> Arr(evalCallStackNamesChain(s, heap, i)),
          className |-> c.className,
          data |-> c.data,
          fnName |-> c.fnName,
          id |-> c.id,
          serviceName |-> s.serviceName ]
  IN  hashEncode(Obj(IF Truthy(c.span)
                     THEN hashData @@ ("spanHash" :> spanToHash(c.span))
                     ELSE hashData))

\* TraceContext.fromHash(hash): Return(the new instance) or Throw
fromHash(s, heap, hash) ==
  LET hashData == hashDecode(hash) IN
  IF hashData.kind = "throw" THEN hashData
  ELSE IF ConstructorThrows(hashData.val) THEN Throw(ErrorObj("TypeError"))
  ELSE Return(NewTraceContext(s, heap, hashData.val))

(***************************************************************************)
(* Inputs of the codec: snapshots {id, className, fnName, serviceName,     *)
(* callStackNamesChain, data, spanHash}.                                   *)
(***************************************************************************)
Absent == [t |-> "absent"]

\* an object literal with the given members, absent ones left out
Field(k, x) == IF x = Absent THEN EmptyRec ELSE (k :> x)

RECURSIVE IsJsonValue(_)
IsJsonValue(x) ==
  CASE x.t = "string" -> TRUE
    [] x.t = "null" -> TRUE
    [] x.t = "number" -> x.v # "NaN"
    [] x.t = "object" ->
         /\ DOMAIN x.v \subseteq {KeyOrder[i] : i \in 1..Len(KeyOrder)}
         /\ \A k \in DOMAIN x.v : IsJsonValue(x.v[k])
    [] x.t = "array" -> \A i \in 1..Len(x.v) : IsJsonValue(x.v[i])
    [] OTHER -> FALSE

FrameInputs ==
  { Obj(Field("className", fr[1]) @@ Field("fnName", Str(fr[2]))
                                  @@ Field("serviceName", Str("svc"))) :
      fr \in {<<Absent, "f">>, <<Str("A"), "f">>, <<Str("A"), "g">>} }

ChainInputs ==
  UNION { [1..n -> FrameInputs] : n \in 0..MaxChain }

DataInputs ==
  { Absent, Null, Obj("a" :> Str("x")), Obj("a" :> Obj("b" :> Num("1"))),
    Obj("a" :> Undefined), Obj("a" :> NaN), Arr(<<Str("x"), Undefined>>) }

SnapshotInputs ==
  { Obj(Field("id", Str("ID1")) @@ Field("className", c)
          @@ Field("fnName", f) @@ Field("serviceName", Str("svc"))
          @@ Field("callStackNamesChain", Arr(ch))
          @@ Field("data", d) @@ Field("spanHash", sh)) :
      c \in {Absent, Str("A"), Undefined}, f \in {Absent, Str("f")},
      ch \in ChainInputs, d \in DataInputs, sh \in {Absent, Str("sh")} }

\* ways a token handed to hashDecode differs from hashEncode's output
Mangles ==
  {"noPrefix", "barePrefix", "empty", "truncated", "junkEmpty", "junkNull",
   "prefixInside"}

Mangle(kind, hash) ==
  LET body == Tail(hash.v) IN
  CASE kind = "noPrefix" -> HashStr(body)
    [] kind = "barePrefix" -> HashStr(<<TRACE_HASH_PREFIX>>)
    [] kind = "empty" -> HashStr(<<>>)
    [] kind = "truncated" ->
         HashStr(<<TRACE_HASH_PREFIX>> \o SubSeq(body, 1, Len(body) - 1))
    [] kind = "junkEmpty" -> HashStr(<<TRACE_HASH_PREFIX, JunkEmpty>> \o body)
    [] kind = "junkNull" -> HashStr(<<TRACE_HASH_PREFIX, JunkNull>>)
    [] kind = "prefixInside" ->
         HashStr(<<Head(body), TRACE_HASH_PREFIX>> \o Tail(body))

(***************************************************************************)
(* SpecHash: the codec applied to the inputs.                              *)
(***************************************************************************)
NoHash == HashStr(<<>>)
NoOutcome == [kind |-> "none", val |-> Undefined]

HashIdle ==
  /\ hIn = Obj(EmptyRec)
  /\ hTok = NoHash
  /\ hOut = NoOutcome
  /\ hpc = "off"

ProcessAtLoad ==
  /\ st = StaticsAtLoad
  /\ ctxs = <<>>
  /\ origin = <<>>
  /\ inits = [n \in DriverNames |-> 0]
  /\ initLog = [calls |-> 0, first |-> Undefined, rets |-> {}]

\* the invocations the model follows
CallIds == {"c1"}

IdleCall ==
  [ pc |-> "idle", wrap |-> Undefined, args |-> <<>>, beh |-> Undefined,
    faults |-> {}, ctx |-> 0, fnArgs |-> <<>>, invoked |-> 0, n |-> 0,
    hist |-> <<>>, outcome |-> NoOutcome, settled |-> NoOutcome ]

NoMutation == [count |-> 0, ctx |-> 0]

DataIdle ==
  /\ objs = <<>>
  /\ dataRef = <<>>
  /\ mut = NoMutation

NoCall == [op |-> "none"]

LoggerIdle ==
  /\ loggers = <<>>
  /\ lcall = NoCall

NoWrite == [op |-> "none"]

AdapterIdle == adapted = <<>> /\ wrote = NoWrite

WrapIdle == wrapped = <<>>

KafkaOff == [on |-> FALSE]

KafkaIdle == kafka = KafkaOff

NoClient == [on |-> FALSE]

NetIdle ==
  /\ thrift = NoClient
  /\ mongo = NoClient
  /\ redis = NoClient

TraceIdle ==
  /\ spans = <<>>
  /\ dlog = <<>>
  /\ calls = [c \in CallIds |-> IdleCall]

InitHash ==
  /\ hIn \in SnapshotInputs
  /\ hTok = NoHash
  /\ hOut = NoOutcome
  /\ hpc = "init"
  /\ ProcessAtLoad
  /\ TraceIdle
  /\ DataIdle /\ LoggerIdle /\ AdapterIdle
  /\ WrapIdle /\ KafkaIdle /\ NetIdle

EncodeStep ==
  /\ hpc = "init"
  /\ hTok' = hashEncode(hIn)
  /\ hpc' = "encoded"
  /\ UNCHANGED <<hIn, hOut>>
  /\ UNCHANGED pvars
  /\ UNCHANGED tvars
  /\ UNCHANGED dvars
  /\ UNCHANGED lvars
  /\ UNCHANGED svars
  /\ UNCHANGED wvars
  /\ UNCHANGED kvars
  /\ UNCHANGED nvars

DecodeStep ==
  /\ hpc = "encoded"
  /\ hOut' = hashDecode(hTok)
  /\ hpc' = "decoded"
  /\ UNCHANGED <<hIn, hTok>>
  /\ UNCHANGED pvars
  /\ UNCHANGED tvars
  /\ UNCHANGED dvars
  /\ UNCHANGED lvars
  /\ UNCHANGED svars
  /\ UNCHANGED wvars
  /\ UNCHANGED kvars
  /\ UNCHANGED nvars

DecodeRawStep ==
  /\ hpc = "init"
  /\ \E kind \in Mangles :
       LET tok == Mangle(kind, hashEncode(hIn)) IN
       /\ hTok' = tok
       /\ hOut' = hashDecode(tok)
  /\ hpc' = "rawDecoded"
  /\ UNCHANGED hIn
  /\ UNCHANGED pvars
  /\ UNCHANGED tvars
  /\ UNCHANGED dvars
  /\ UNCHANGED lvars
  /\ UNCHANGED svars
  /\ UNCHANGED wvars
  /\ UNCHANGED kvars
  /\ UNCHANGED nvars

NextHash == EncodeStep \/ DecodeStep \/ DecodeRawStep

SpecHash == InitHash /\ [][NextHash]_vars

(***************************************************************************)
(* C8: for every valid snapshot s (all values JSON-representable),         *)
(* hashDecode(hashEncode(s)) returns a value deep-equal to s, and          *)
(* hashEncode(s) starts with the prefix $TRACE_HASH_.                      *)
(***************************************************************************)
C8_RoundTrip ==
  (hpc = "decoded" /\ IsJsonValue(hIn)) =>
    /\ hOut = Return(hIn)
    /\ StartsWithPrefix(hTok)

\* a valid snapshot with a two-frame chain and nested data went through
\* the codec
C8_Witness ==
  /\ hpc = "decoded"
  /\ IsJsonValue(hIn)
  /\ Len(Get(hIn, "callStackNamesChain").v) = 2
  /\ Get(hIn, "data") = Obj("a" :> Obj("b" :> Num("1")))
  /\ hOut = Return(hIn)

(***************************************************************************)
(* C9: hashDecode fails with a decode error for every token that is        *)
(* malformed or does not start with $TRACE_HASH_; it never returns a       *)
(* snapshot or null for such a token.                                      *)
(***************************************************************************)
\* a token hashEncode can have written: the prefix, then a compressed text
\* that is one JSON value
WellFormedHash(h) ==
  /\ StartsWithPrefix(h)
  /\ Len(h.v) > 1
  /\ \A i \in 2..Len(h.v) : h.v[i].k = "b64"
  /\ JsonParse(Text(Expand(Tail(h.v)))).kind = "return"

C9_DecodeRejectsMalformed ==
  (hpc = "rawDecoded" /\ ~WellFormedHash(hTok)) => hOut.kind = "throw"

(***************************************************************************)
(* SpecInit: TraceContext.sharedInit called again and again.               *)
(***************************************************************************)
\* how many sharedInit calls a run makes
MaxInitCalls == 2

InitConfigs ==
  { Obj(Field("serviceName", sn) @@ Field("traceDriver", td)
          @@ Field("logDriver", ld) @@ Field("logLevel", ll)
          @@ Field("injectMode", im) @@ Field("shouldLogStartEnd", se)
          @@ Field("shouldRecordTracing", rt)) :
      sn \in {Absent, Str("svc")},
      td \in {Absent, TraceDriver("T1"), TraceDriver("T2")},
      ld \in {Absent, LogDriver("L1")},
      ll \in {Absent, Str("verbose"), Str("error")},
      im \in {Absent, IN_FIRST_ARG_OBJECT},
      se \in {Absent, Bool(FALSE)},
      rt \in {Absent, Bool(FALSE)} }

InitInit == HashIdle /\ ProcessAtLoad /\ TraceIdle /\ DataIdle /\ LoggerIdle /\ AdapterIdle
  /\ WrapIdle /\ KafkaIdle /\ NetIdle

SharedInitCall ==
  /\ initLog.calls < MaxInitCalls
  /\ \E config \in InitConfigs :
       LET r == sharedInit(st, ctxs, inits, config) IN
       /\ st' = r.st
       /\ ctxs' = r.ctxs
       /\ inits' = r.inits
       /\ origin' = [i \in 1..Len(r.ctxs) |-> 0]
       /\ initLog' = [ calls |-> initLog.calls + 1,
                       first |-> IF initLog.calls = 0 THEN config
                                 ELSE initLog.first,
                       rets |-> initLog.rets \cup {r.ret} ]
  /\ UNCHANGED hvars
  /\ UNCHANGED tvars
  /\ UNCHANGED dvars
  /\ UNCHANGED lvars
  /\ UNCHANGED svars
  /\ UNCHANGED wvars
  /\ UNCHANGED kvars
  /\ UNCHANGED nvars

NextInit == SharedInitCall

SpecInit == InitInit /\ [][NextInit]_vars

MaxCtx == 5

\* (className, fnName, serviceName) a caller gives a context
CtxFrames ==
  { <<Absent, Str("f"), Absent>>, <<Str("A"), Str("g"), Str("other")>> }

ParentChoices == {Absent} \cup {CtxRef(i) : i \in 1..Len(ctxs)}

InitCtx ==
  /\ HashIdle
  /\ TraceIdle
  /\ DataIdle /\ LoggerIdle /\ AdapterIdle
  /\ WrapIdle /\ KafkaIdle /\ NetIdle
  /\ \E sn \in {Absent, Str("svc")} :
       LET r == sharedInit(StaticsAtLoad, <<>>, [n \in DriverNames |-> 0],
                           Obj(Field("serviceName", sn)))
       IN  /\ st = r.st
           /\ ctxs = r.ctxs
           /\ inits = r.inits
           /\ origin = <<0>>
           /\ initLog = [calls |-> 1, first |-> Obj(Field("serviceName", sn)),
                         rets |-> {r.ret}]

\* new TraceContext({className, fnName, serviceName, parent}), the frame
\* being one of frames
CtxNewOf(frames) ==
  /\ Len(ctxs) < MaxCtx
  /\ \E fr \in frames, parent \in ParentChoices :
       LET config == Obj(Field("className", fr[1]) @@ Field("fnName", fr[2])
                           @@ Field("serviceName", fr[3])
                           @@ Field("parent", parent))
       IN  /\ ctxs' = Append(ctxs, NewTraceContext(st, ctxs, config))
           /\ origin' = Append(origin, 0)
  /\ UNCHANGED <<st, inits, initLog>>
  /\ UNCHANGED hvars
  /\ UNCHANGED tvars
  /\ UNCHANGED dvars
  /\ UNCHANGED lvars
  /\ UNCHANGED svars
  /\ UNCHANGED wvars
  /\ UNCHANGED kvars
  /\ UNCHANGED nvars

CtxNew == CtxNewOf(CtxFrames)

\* TraceContext.fromHash(P.toHash())
CtxRebuild ==
  /\ Len(ctxs) < MaxCtx
  /\ \E i \in 1..Len(ctxs) :
       LET r == fromHash(st, ctxs, toHash(st, ctxs, i)) IN
       /\ r.kind = "return"
       /\ ctxs' = Append(ctxs, r.val)
       /\ origin' = Append(origin, i)
  /\ UNCHANGED <<st, inits, initLog>>
  /\ UNCHANGED hvars
  /\ UNCHANGED tvars
  /\ UNCHANGED dvars
  /\ UNCHANGED lvars
  /\ UNCHANGED svars
  /\ UNCHANGED wvars
  /\ UNCHANGED kvars
  /\ UNCHANGED nvars

NextCtx == CtxNew \/ CtxRebuild

SpecCtx == InitCtx /\ [][NextCtx]_vars

(***************************************************************************)
(* C10: for every context P (shared, derived or reconstructed) and every   *)
(* frame, a child C of P has callStackName = P's chain extended by C's     *)
(* frame, and a child C' with the same frame of fromHash(P.toHash()) has   *)
(* callStackName(C') = callStackName(C).                                   *)
(***************************************************************************)
\* i was built by the constructor as a child of p
ChildOf(i, p) == ctxs[i].parent = CtxRef(p) /\ origin[i] = 0

SameFrame(i, j) ==
  /\ ctxs[i].className = ctxs[j].className
  /\ ctxs[i].fnName = ctxs[j].fnName
  /\ ctxs[i].serviceName = ctxs[j].serviceName

ExtendsParent(c, p) ==
  callStackName(st, ctxs, c) =
    RenderChain(st, evalCallStackNamesChain(st, ctxs, p) \o <<FrameOf(ctxs[c])>>)

SurvivesHash(c, p, c2, p2) ==
  callStackName(st, ctxs, c2) = callStackName(st, ctxs, c)

C10_LineagePreserved ==
  \A p \in 1..Len(ctxs), c \in 1..Len(ctxs) :
    ChildOf(c, p) =>
      /\ ExtendsParent(c, p)
      /\ \A p2 \in 1..Len(ctxs), c2 \in 1..Len(ctxs) :
           (origin[p2] = p /\ ChildOf(c2, p2) /\ SameFrame(c, c2)) =>
             SurvivesHash(c, p, c2, p2)

\* the same, for every P but the shared context
C10_LineagePreservedBelowShared ==
  \A p \in 1..Len(ctxs), c \in 1..Len(ctxs) :
    (ChildOf(c, p) /\ ~isShared(st, p)) =>
      /\ ExtendsParent(c, p)
      /\ \A p2 \in 1..Len(ctxs), c2 \in 1..Len(ctxs) :
           (origin[p2] = p /\ ChildOf(c2, p2) /\ SameFrame(c, c2)) =>
             SurvivesHash(c, p, c2, p2)

(***************************************************************************)
(* The drivers.  A call of the wrapper is run on a machine                 *)
(*   [heap, spans, dlog, hist, n, exc]:                                    *)
(* the contexts, the spans and log records the drivers hold, the history   *)
(* of the call, the number of driver methods it has called, and the        *)
(* exception in flight.  Every step is skipped while an exception is in    *)
(* flight.  faults is the set of driver calls (counted from 1 within the   *)
(* call) that throw.                                                       *)
(***************************************************************************)
\* most driver calls that throw during one invocation
MaxFaults == 1

LOG_LEVELS == <<"error", "warn", "info", "debug", "verbose">>

OK == Str("ok")
INTERNAL_ERROR == Str("internal_error")

DriverError == ErrorObj("DriverError")

Ev(e, a) == [e |-> e, a |-> a]

Running(m) == m.exc.kind = "none"
Raise(m, err) == [m EXCEPT !.exc = Throw(err)]
Note(m, ev) == [m EXCEPT !.hist = Append(@, ev)]

\* LOG_LEVELS.indexOf(level)
LevelIndexOf(level) ==
  IF level.t = "string" /\ \E k \in 1..Len(LOG_LEVELS) : LOG_LEVELS[k] = level.v
  THEN (CHOOSE k \in 1..Len(LOG_LEVELS) : LOG_LEVELS[k] = level.v) - 1
  ELSE 0 - 1

\* Logger._log(level, message) on the logger of context i, LOG_SILENT unset
LoggerLog(m, faults, i, level, message) ==
  IF ~Running(m) THEN m
  ELSE
    LET lg == m.heap[i].logger
        currentLevelIdx == LevelIndexOf(lg.level)
        levelIdx == LevelIndexOf(Str(level))
        m1 == [m EXCEPT !.n = @ + 1]
    IN
    IF ~Truthy(lg.driver)
    THEN Raise(m, ErrorObj("no log driver provided"))
    ELSE IF levelIdx < 0 \/ levelIdx > currentLevelIdx THEN m
    ELSE IF m1.n \in faults
    THEN Note(Raise(m1, DriverError), Ev("fault", "log " \o message))
    ELSE Note([m1 EXCEPT !.dlog = Append(@, [ ctx |-> i, level |-> level,
                                              message |-> message ])],
              Ev("log", message))

\* a traceStart that asks the driver for a span whether or not the context
\* has a fnName
traceStartUnnamed(s, m, faults, i) ==
  IF ~Running(m) \/ ~(Truthy(s.traceDriver) /\ Truthy(m.heap[i].autoTracing))
  THEN m
  ELSE
    LET p == m.heap[i].parent IN
    Note([m EXCEPT
            !.n = @ + 1,
            !.spans = Append(@,
              [ opName |-> m.heap[i].fnName,
                parent |-> IF Truthy(p) THEN m.heap[p.v].span ELSE p,
                parentHash |-> IF Truthy(p) THEN m.heap[p.v].spanHash ELSE p,
                serviceName |-> s.serviceName,
                status |-> Undefined,
                finishes |-> 0 ]),
            !.heap[i].span = SpanRef(Len(m.spans) + 1)],
         Ev("spanStart", ""))

\* TraceContext.traceStart() of context i
traceStart(s, m, faults, i) ==
  IF ~Running(m) THEN m
  ELSE
    LET c == m.heap[i]
        p == c.parent
        m1 == [m EXCEPT !.n = @ + 1]
        span == [ opName |-> c.fnName,
                  parent |-> IF Truthy(p) THEN m.heap[p.v].span ELSE p,
                  parentHash |-> IF Truthy(p) THEN m.heap[p.v].spanHash
                                 ELSE p,
                  serviceName |-> s.serviceName,
                  status |-> Undefined,
                  finishes |-> 0 ]
    IN
    IF ~(Truthy(s.traceDriver) /\ Truthy(c.autoTracing) /\ Truthy(c.fnName))
    THEN m
    ELSE IF m1.n \in faults
    THEN Note(Raise(m1, DriverError), Ev("fault", "spanStart"))
    ELSE Note([m1 EXCEPT !.spans = Append(@, span),
                         !.heap[i].span = SpanRef(Len(m.spans) + 1)],
              Ev("spanStart", ""))

\* TraceContext.traceFinish(status) of context i
traceFinish(m, faults, i, status) ==
  IF ~Running(m) THEN m
  ELSE
    LET sp == m.heap[i].span
        m1 == [m EXCEPT !.n = @ + 1]
        m2 == Note([m1 EXCEPT !.spans[sp.v].status = status, !.n = @ + 1],
                   Ev("spanStatus", status.v))
    IN
    IF ~Truthy(sp) THEN m
    ELSE IF m1.n \in faults
    THEN Note(Raise(m1, DriverError), Ev("fault", "status"))
    ELSE IF m2.n \in faults
    THEN Note(Raise(m2, DriverError), Ev("fault", "finish"))
    ELSE Note([m2 EXCEPT !.spans[sp.v].finishes = @ + 1],
              Ev("spanFinish", ""))

(***************************************************************************)
(* traceFn.  A wrap is what traceFn keeps of its arguments: the merged     *)
(* config ({...config, ...traceFnConfig}, fnName defaulted to the name of  *)
(* the function) and argNames.  A behaviour is what the original function  *)
(* does when called: [kind, val] with kind "return", "throw", "resolve",   *)
(* "reject" (a native Promise that settles later) or "thenable" (an object *)
(* with a then method that is no Promise).                                 *)
(***************************************************************************)
Fn(ret) == [t |-> "function", v |-> ret]
Path(p) == [t |-> "path", v |-> p]
PromiseOf(c) == [t |-> "promise", v |-> c]
Thenable == [t |-> "thenable"]

\* CTX_ARG_NAME_REGEX.test(name)
IsCtxArgName(name) == name \in {"$ctx", "_$ctx"}

\* _.get(args, "i") and _.get(args, "i.key")
LodashGet(args, path) ==
  LET i == path.v[1] + 1 IN
  IF i \notin 1..Len(args) THEN Undefined
  ELSE IF Len(path.v) = 1 THEN args[i]
  ELSE Get(args[i], path.v[2])

\* the for loop that looks for a parent among the arguments
RECURSIVE ScanArgs(_, _, _, _)
ScanArgs(args, i, parentCtx, parentTraceHash) ==
  IF i > Len(args) THEN [ctx |-> parentCtx, hash |-> parentTraceHash]
  ELSE
    LET arg == args[i]
        c == IF arg.t = "object" THEN Get(arg, "$ctx")
             ELSE IF arg.t = "ctx" THEN arg
             ELSE parentCtx
        h == IF arg.t = "object" THEN Get(arg, "$traceHash")
             ELSE IF arg.t = "hash" /\ StartsWithPrefix(arg) THEN arg
             ELSE parentTraceHash
    IN  IF Truthy(c) \/ Truthy(h) THEN [ctx |-> c, hash |-> h]
        ELSE ScanArgs(args, i + 1, c, h)

\* a resolution that lets a hash found among the arguments displace the
\* context found next to it
ResolveParentHashFirst(config, args) ==
  LET found == ScanArgs(args, 1, Undefined, Undefined) IN
  [ ctx |-> IF Truthy(found.hash) THEN Undefined
            ELSE IF Truthy(Get(config, "parent")) THEN Get(config, "parent")
            ELSE found.ctx,
    hash |-> found.hash ]

\* $parentCtx and $parentTraceHash before the hash is decoded
ResolveParent(config, args) ==
  LET found == IF Truthy(Get(config, "parent"))
               THEN [ctx |-> Get(config, "parent"), hash |-> Undefined]
               ELSE ScanArgs(args, 1, Undefined, Undefined)
      path == Get(config, "traceHashArgPath")
      traceHashArg == IF Truthy(path) THEN LodashGet(args, path)
                      ELSE Undefined
  IN  [ ctx |-> found.ctx,
        hash |-> IF traceHashArg.t = "function" THEN traceHashArg.v
                 ELSE IF traceHashArg.t \in {"string", "hash"}
                 THEN traceHashArg
                 ELSE found.hash ]

\* newArgs: the arguments the original function receives
InjectArgs(argNames, args, ctx, injectMode) ==
  LET positional ==
        [i \in 1..Len(argNames) |->
           IF IsCtxArgName(argNames[i]) THEN ctx
           ELSE IF i <= Len(args) THEN args[i]
           ELSE Undefined]
      padded == IF positional = <<>> THEN <<Obj(EmptyRec)>> ELSE positional
  IN  IF injectMode # IN_FIRST_ARG_OBJECT THEN positional
      ELSE IF padded[1].t = "object"
      THEN <<Obj(("$ctx" :> ctx) @@ padded[1].v)>> \o Tail(padded)
      ELSE padded

\* a wrapper whose instanceof test never succeeds
InstanceofNothing(result) == FALSE

\* result instanceof Promise
InstanceofPromise(result) == result.t = "promise"

(***************************************************************************)
(* The wrapper runs on a machine that also carries ctx (the $ctx of the    *)
(* call), fnArgs and invoked (what the original function received, and how *)
(* often it was called), result, and caught (the error a handler is        *)
(* given).  The steps of the wrapper are chained over sets of machines.    *)
(***************************************************************************)
Caught(m) == [m EXCEPT !.exc = NoOutcome, !.caught = m.exc.val]

\* finish(result, error) when failed, finish() or finish(result) otherwise:
\* the end log and the end of the span
finish(M, faults, shouldLogStartEnd, shouldRecordTracing, failed) ==
  LET logged == { IF Truthy(shouldLogStartEnd)
                  THEN LoggerLog(m, faults, m.ctx, "verbose", "end")
                  ELSE m : m \in M }
  IN  { IF Truthy(shouldRecordTracing)
        THEN traceFinish(m, faults, m.ctx,
                         IF failed /\ Truthy(m.caught) THEN INTERNAL_ERROR
                         ELSE OK)
        ELSE m : m \in logged }

\* the body both catch handlers share: reading error.fileName of null or
\* undefined is a TypeError
failHandler(M, faults, shouldLogStartEnd, shouldRecordTracing) ==
  finish({ IF Nullish(m.exc.val) THEN Raise(Caught(m), ErrorObj("TypeError"))
           ELSE LoggerLog(Caught(m), faults, m.ctx, "error", "fail") :
             m \in M },
         faults, shouldLogStartEnd, shouldRecordTracing, TRUE)

\* try { finish() } catch (error) { ... }
tryFinish(M, faults, shouldLogStartEnd, shouldRecordTracing) ==
  UNION { IF Running(t) THEN {t}
          ELSE failHandler({t}, faults, shouldLogStartEnd,
                           shouldRecordTracing) :
            t \in finish(M, faults, shouldLogStartEnd, shouldRecordTracing,
                         FALSE) }

FnResult(beh) ==
  CASE beh.kind = "return" -> beh.val
    [] beh.kind \in {"resolve", "reject"} -> PromiseOf("original")
    [] beh.kind = "thenable" -> Thenable
    [] OTHER -> Undefined

\* fnToCall(...newArgs)
FnCall(m, newArgs, beh) ==
  IF ~Running(m) THEN m
  ELSE IF beh.kind = "throw"
  THEN Raise([Note(Note(m, Ev("fnBegin", "")), Ev("fnThrow", ""))
                EXCEPT !.fnArgs = newArgs, !.invoked = @ + 1],
             beh.val)
  ELSE [Note(Note(m, Ev("fnBegin", "")), Ev("fnReturn", ""))
          EXCEPT !.fnArgs = newArgs, !.invoked = @ + 1,
                 !.result = FnResult(beh)]

\* $parentCtx decoded from the hash when there is one to decode, and
\* $ctx = new TraceContext({...config, fnArgs: [], parent: $parentCtx})
newContext(s, M, config, args) ==
  LET found == ResolveParent(config, args)
      decode == ~Truthy(found.ctx) /\ Truthy(found.hash)
  IN  UNION {
        { IF d.kind = "throw" THEN Raise(m, d.val)
          ELSE
            LET heap1 == IF decode THEN Append(m.heap, d.val) ELSE m.heap
                parentCtx == IF decode THEN CtxRef(Len(heap1)) ELSE found.ctx
                ctx == NewTraceContext(s, heap1,
                         Obj(("parent" :> parentCtx)
                               @@ ("fnArgs" :> Arr(<<>>)) @@ config.v))
            IN  [m EXCEPT !.heap = Append(heap1, ctx),
                          !.ctx = Len(heap1) + 1] :
            d \in { IF decode THEN fromHash(s, m.heap, found.hash)
                    ELSE Return(Undefined) } } :
          m \in M }

\* the wrapper up to its return or throw: the machines it can end in
wrapperCall(s, m0, w, args, beh, faults) ==
  LET config == w.config
      injectMode == Coalesce(Get(config, "injectMode"), s.injectMode)
      shouldLogStartEnd ==
        DefaultTo(Get(config, "shouldLogStartEnd"), s.shouldLogStartEnd)
      shouldRecordTracing ==
        Coalesce(Get(config, "shouldRecordTracing"), s.shouldRecordTracing)
      created == newContext(s, {m0}, config, args)
      traced == { IF Truthy(shouldRecordTracing)
                  THEN traceStart(s, m, faults, m.ctx)
                  ELSE m : m \in created }
      started == { IF Truthy(shouldLogStartEnd)
                   THEN LoggerLog(m, faults, m.ctx, "verbose", "start")
                   ELSE m : m \in traced }
      returned == { FnCall(m, InjectArgs(w.argNames, args, CtxRef(m.ctx),
                                         injectMode), beh) :
                      m \in started }
  IN  UNION { IF ~Running(m) THEN {m}
              ELSE IF InstanceofPromise(m.result)
              THEN {[m EXCEPT !.result = PromiseOf("derived")]}
              ELSE tryFinish({m}, faults, shouldLogStartEnd,
                             shouldRecordTracing) :
                m \in returned }

\* the handlers of result.then(finish).catch(...) once the original
\* promise has settled: the machines they can end in, the exception in
\* flight being the reason the wrapper's promise is rejected with
settleHandlers(s, m0, w, beh, faults) ==
  LET config == w.config
      shouldLogStartEnd ==
        DefaultTo(Get(config, "shouldLogStartEnd"), s.shouldLogStartEnd)
      shouldRecordTracing ==
        Coalesce(Get(config, "shouldRecordTracing"), s.shouldRecordTracing)
      settled == {Note(m0, Ev("fnSettle", beh.kind))}
      then == IF beh.kind = "resolve"
              THEN finish(settled, faults, shouldLogStartEnd,
                          shouldRecordTracing, FALSE)
              ELSE { Raise(m, beh.val) : m \in settled }
  IN  UNION { IF Running(m) THEN {m}
              ELSE { IF Running(h) THEN Raise(h, h.caught) ELSE h :
                       h \in failHandler({m}, faults, shouldLogStartEnd,
                                         shouldRecordTracing) } :
                m \in then }

(***************************************************************************)
(* Spec: one invocation of a wrapped function in a process where           *)
(* sharedInit has run and a caller's context is alive.                     *)
(***************************************************************************)
\* the driver calls one invocation can make: spanStart, the start log, the
\* three of finish, and the four of a catch handler
FaultSlots == 1..9

FaultSets == {F \in SUBSET FaultSlots : F # {} /\ Cardinality(F) <= MaxFaults}

TraceInitConfigs ==
  { Obj(Field("serviceName", Str("svc")) @@ Field("traceDriver", td)
          @@ Field("logLevel", ll)) :
      td \in {Absent, TraceDriver("T1")},
      ll \in {Absent, Str("verbose"), Str("info")} }

Wrap(fields, argNames) == [config |-> Obj(fields), argNames |-> argNames]

PlainWrap == Wrap("fnName" :> Str("f"), <<"a", "$ctx">>)

\* the wraps drawn as inputs, in a sequence
Wraps ==
  << PlainWrap,
     Wrap(("fnName" :> Str("m")) @@ ("className" :> Str("A")),
          <<"a", "$ctx">>),
     Wrap(("fnName" :> Str("f")) @@ ("shouldLogStartEnd" :> Bool(FALSE)),
          <<"a">>),
     Wrap(("fnName" :> Str("f")) @@ ("shouldRecordTracing" :> Bool(FALSE)),
          <<"a">>),
     Wrap(("fnName" :> Str("f")) @@ ("parent" :> CtxRef(1)), <<"$ctx", "a">>),
     Wrap(("fnName" :> Str("f")) @@ ("traceHashArgPath" :> Path(<<0, "h">>)),
          <<"a">>),
     Wrap(("fnName" :> Str("f")) @@ ("traceHashArgPath" :> Path(<<1>>)),
          <<"a", "b">>),
     Wrap(("fnName" :> Str("f")) @@ ("injectMode" :> IN_FIRST_ARG_OBJECT),
          <<"props">>),
     Wrap("fnName" :> Str(""), <<>>) >>

\* the hashes a caller can hand over: damaged ones, and those of the live
\* contexts
BadHashes(s, heap) ==
  << Mangle("truncated", toHash(s, heap, 1)),
     Mangle("barePrefix", toHash(s, heap, 1)) >>

HashInputs(s, heap) ==
  BadHashes(s, heap) \o [p \in 1..Len(heap) |-> toHash(s, heap, p)]

\* the argument lists drawn as inputs, in a sequence
ArgLists(s, heap) ==
  LET hs == HashInputs(s, heap)
      bad == BadHashes(s, heap)
  IN  << <<>>, <<Num("1")>> >>
      \o [p \in 1..Len(heap) |-> <<Num("1"), CtxRef(p)>>]
      \o [p \in 1..Len(heap) |-> <<Obj("$ctx" :> CtxRef(p))>>]
      \o [k \in 1..Len(hs) |-> <<Obj("$traceHash" :> hs[k])>>]
      \o [k \in 1..Len(hs) |-> <<hs[k]>>]
      \o [k \in 1..Len(hs) |-> <<Obj("h" :> hs[k])>>]
      \o [k \in 1..Len(hs) |-> <<Num("1"), Fn(hs[k])>>]
      \o [k \in 1..Len(bad) |->
            <<Obj(("$ctx" :> CtxRef(1)) @@ ("$traceHash" :> bad[k]))>>]
      \o << <<toHash(s, heap, 1), CtxRef(2)>>,
            <<CtxRef(1), Obj("$ctx" :> CtxRef(2))>>,
            <<toHash(s, heap, 2), toHash(s, heap, 1)>> >>

\* the argument lists of the invocations whose driver calls throw
FaultyArgLists == << <<>>, <<Num("1"), CtxRef(2)>> >>

Beh(kind, val) == [kind |-> kind, val |-> val]

Behaviours ==
  { Beh("return", Num("42")), Beh("return", Undefined),
    Beh("throw", ErrorObj("E")),
    Beh("resolve", Num("42")),
    Beh("reject", ErrorObj("E")), Beh("reject", Str("oops")),
    Beh("reject", Null), Beh("reject", Undefined),
    Beh("thenable", Undefined) }

\* the machine a step of call k starts on
Machine(k) ==
  [ heap |-> ctxs, spans |-> spans, dlog |-> dlog, hist |-> k.hist,
    n |-> k.n, exc |-> NoOutcome, ctx |-> k.ctx, fnArgs |-> k.fnArgs,
    invoked |-> k.invoked, result |-> Undefined, caught |-> Undefined ]

Init ==
  /\ HashIdle
  /\ \E config \in TraceInitConfigs :
       LET r == sharedInit(StaticsAtLoad, <<>>, [n \in DriverNames |-> 0],
                           config)
           caller == NewTraceContext(r.st, r.ctxs,
                       Obj(("fnName" :> Str("caller"))
                             @@ ("parent" :> r.ret)))
           m == traceStart(r.st,
                  [ heap |-> Append(r.ctxs, caller), spans |-> <<>>,
                    dlog |-> <<>>, hist |-> <<>>, n |-> 0,
                    exc |-> NoOutcome ], {}, Len(r.ctxs) + 1)
       IN  /\ st = r.st
           /\ ctxs = m.heap
           /\ spans = m.spans
           /\ dlog = m.dlog
           /\ inits = r.inits
           /\ origin = <<0, 0>>
           /\ initLog = [calls |-> 1, first |-> config, rets |-> {r.ret}]
  /\ calls = [c \in CallIds |-> IdleCall]
  /\ DataIdle /\ LoggerIdle /\ AdapterIdle
  /\ WrapIdle /\ KafkaIdle /\ NetIdle

\* the wrapper is called with args; it runs up to its return or throw
Called(c, w, args, beh, faults) ==
  /\ \E m \in wrapperCall(st, Machine(IdleCall), w, args, beh, faults) :
       /\ ctxs' = m.heap
       /\ spans' = m.spans
       /\ dlog' = m.dlog
       /\ calls' = [calls EXCEPT ![c] =
            [ pc |-> IF Running(m) /\ m.result = PromiseOf("derived")
                     THEN "pending" ELSE "done",
              wrap |-> w, args |-> args, beh |-> beh, faults |-> faults,
              ctx |-> m.ctx, fnArgs |-> m.fnArgs, invoked |-> m.invoked,
              n |-> m.n, hist |-> m.hist,
              outcome |-> IF Running(m) THEN Return(m.result) ELSE m.exc,
              settled |-> NoOutcome ]]
  /\ UNCHANGED <<st, origin, inits, initLog>>
  /\ UNCHANGED hvars
  /\ UNCHANGED dvars
  /\ UNCHANGED lvars
  /\ UNCHANGED svars
  /\ UNCHANGED wvars
  /\ UNCHANGED kvars
  /\ UNCHANGED nvars

\* an invocation while the drivers work
Invoke(c) ==
  /\ calls[c].pc = "idle"
  /\ \E argLists \in {ArgLists(st, ctxs)} :
       \E w \in 1..Len(Wraps), a \in 1..Len(argLists), beh \in Behaviours :
         Called(c, Wraps[w], argLists[a], beh, {})

\* an invocation during which some calls of the drivers throw
InvokeFaulty(c) ==
  /\ calls[c].pc = "idle"
  /\ \E a \in 1..Len(FaultyArgLists), beh \in Behaviours,
        faults \in FaultSets :
       Called(c, PlainWrap, FaultyArgLists[a], beh, faults)

\* the promise the original function returned settles and the handlers
\* the wrapper attached run
Settle(c) ==
  /\ calls[c].pc = "pending"
  /\ \E k \in {calls[c]} :
       \E m \in settleHandlers(st, Machine(k), k.wrap, k.beh, k.faults) :
         /\ ctxs' = m.heap
         /\ spans' = m.spans
         /\ dlog' = m.dlog
         /\ calls' = [calls EXCEPT
              ![c].pc = "done", ![c].n = m.n, ![c].hist = m.hist,
              ![c].settled =
                 IF Running(m) THEN [kind |-> "resolved", val |-> k.beh.val]
                 ELSE [kind |-> "rejected", val |-> m.exc.val]]
  /\ UNCHANGED <<st, origin, inits, initLog>>
  /\ UNCHANGED hvars
  /\ UNCHANGED dvars
  /\ UNCHANGED lvars
  /\ UNCHANGED svars
  /\ UNCHANGED wvars
  /\ UNCHANGED kvars
  /\ UNCHANGED nvars

Next == \E c \in CallIds : Invoke(c) \/ InvokeFaulty(c) \/ Settle(c)

Spec == Init /\ [][Next]_vars

(***************************************************************************)
(* What a call shows of itself.                                            *)
(***************************************************************************)
\* the positions of the events e (with detail a) in the history of call c
Positions(c, e, a) ==
  { j \in 1..Len(calls[c].hist) : calls[c].hist[j] = Ev(e, a) }

Happened(c, e, a) == Positions(c, e, a) # {}

\* some call of a driver threw during call c
DriverFailed(c) ==
  \E j \in 1..Len(calls[c].hist) : calls[c].hist[j].e = "fault"

\* what the original function did, as the caller of the wrapper should
\* see it
SyncOutcomeOf(beh) ==
  IF beh.kind = "throw" THEN Throw(beh.val) ELSE Return(FnResult(beh))

SettlementOf(beh) ==
  [ kind |-> IF beh.kind = "resolve" THEN "resolved" ELSE "rejected",
    val |-> beh.val ]

IsAsync(beh) == beh.kind \in {"resolve", "reject"}

\* the outcome of the wrapper is that of the original function
SameOutcome(c) ==
  LET k == calls[c] IN
  IF IsAsync(k.beh)
  THEN /\ k.outcome = Return(PromiseOf("derived"))
       /\ k.pc = "done" => k.settled = SettlementOf(k.beh)
  ELSE k.outcome = SyncOutcomeOf(k.beh)

\* the call found a trace hash and had to decode it
HashUsed(c) ==
  LET found == ResolveParent(calls[c].wrap.config, calls[c].args) IN
  ~Truthy(found.ctx) /\ Truthy(found.hash)

\* the trace hash found for the call cannot be decoded into a context
HashUndecodable(c) ==
  /\ HashUsed(c)
  /\ LET found == ResolveParent(calls[c].wrap.config, calls[c].args)
         data == hashDecode(found.hash)
     IN  data.kind = "throw" \/ data.val.t # "object"

\* start/end logging is on for the call and the level lets it through
LoggingOn(c) ==
  /\ Truthy(DefaultTo(Get(calls[c].wrap.config, "shouldLogStartEnd"),
                      st.shouldLogStartEnd))
  /\ st.logLevel = Str("verbose")

\* tracing is on for the call: traceStart is called and opens a span
TracingOn(c) ==
  /\ Truthy(Coalesce(Get(calls[c].wrap.config, "shouldRecordTracing"),
                     st.shouldRecordTracing))
  /\ Truthy(st.traceDriver)
  /\ Truthy(Get(calls[c].wrap.config, "fnName"))

Began(c) == calls[c].pc # "idle"
Finished(c) == calls[c].pc = "done"

(***************************************************************************)
(* C1: while the drivers do not fail, a synchronous call of the wrapper    *)
(* has the outcome of the original function, for every argument list: it   *)
(* returns the value the function returns and throws the error the         *)
(* function throws.                                                        *)
(***************************************************************************)
C1_SyncOutcomePreserved ==
  \A c \in CallIds :
    (Began(c) /\ calls[c].faults = {} /\ ~IsAsync(calls[c].beh)) =>
      calls[c].outcome = SyncOutcomeOf(calls[c].beh)

\* the same, for the argument lists that hold no undecodable hash
C1_SyncOutcomePreservedDecodable ==
  \A c \in CallIds :
    (Began(c) /\ calls[c].faults = {} /\ ~IsAsync(calls[c].beh)
       /\ ~HashUndecodable(c)) =>
      /\ calls[c].outcome = SyncOutcomeOf(calls[c].beh)
      /\ calls[c].invoked = 1

(***************************************************************************)
(* C2: the promise the wrapper returns settles as the promise of the       *)
(* original function does: resolved with the same value, rejected with     *)
(* the same reason, whatever the reason (null and undefined included).     *)
(***************************************************************************)
C2_AsyncSettlementPreserved ==
  \A c \in CallIds :
    (Finished(c) /\ calls[c].faults = {} /\ IsAsync(calls[c].beh)
       /\ calls[c].invoked = 1) =>
      calls[c].settled = SettlementOf(calls[c].beh)

\* the same, for the reasons that are neither null nor undefined
C2_AsyncSettlementPreservedNonNullish ==
  \A c \in CallIds :
    (Finished(c) /\ calls[c].faults = {} /\ IsAsync(calls[c].beh)
       /\ calls[c].invoked = 1
       /\ ~(calls[c].beh.kind = "reject" /\ Nullish(calls[c].beh.val))) =>
      calls[c].settled = SettlementOf(calls[c].beh)

(***************************************************************************)
(* C3: when the original function throws synchronously, with start/end     *)
(* logging and tracing on, the call has made exactly one start log and     *)
(* exactly one failure log, and its span is finished, once, with the       *)
(* status INTERNAL_ERROR, by the time the error reaches the caller.        *)
(***************************************************************************)
C3_SyncThrowRecorded ==
  \A c \in CallIds :
    (Finished(c) /\ calls[c].faults = {} /\ calls[c].beh.kind = "throw"
       /\ calls[c].invoked = 1 /\ LoggingOn(c) /\ TracingOn(c)) =>
      /\ Cardinality(Positions(c, "log", "start")) = 1
      /\ Cardinality(Positions(c, "log", "fail")) = 1
      /\ LET sp == ctxs[calls[c].ctx].span IN
         /\ Truthy(sp)
         /\ spans[sp.v].status = INTERNAL_ERROR
         /\ spans[sp.v].finishes = 1

(***************************************************************************)
(* C4: in every invocation, the start log and the start of the span come   *)
(* before the original function begins, and they have come when it begins  *)
(* with logging and tracing on; the end log, the status and the finish of  *)
(* the span come only after the result has settled: after the return of a  *)
(* function that returns no promise, and after the promise has resolved    *)
(* or rejected (never when it is returned) of one that returns a promise;  *)
(* and they have come once a returned or resolved call is over.            *)
(***************************************************************************)
StartEvents(c) ==
  Positions(c, "log", "start") \cup Positions(c, "spanStart", "")

EndEvents(c) ==
  Positions(c, "log", "end") \cup Positions(c, "spanFinish", "")
    \cup Positions(c, "spanStatus", OK.v)
    \cup Positions(c, "spanStatus", INTERNAL_ERROR.v)

\* the positions at which the result of the call settles
SettleEvents(c) ==
  IF IsAsync(calls[c].beh)
  THEN Positions(c, "fnSettle", "resolve") \cup Positions(c, "fnSettle", "reject")
  ELSE Positions(c, "fnReturn", "")

C5_BadHashMeansNoParent ==
  \A c \in CallIds :
    (Began(c) /\ calls[c].faults = {} /\ HashUndecodable(c)) =>
      /\ calls[c].invoked = 1
      /\ ~IsAsync(calls[c].beh) =>
            calls[c].outcome = SyncOutcomeOf(calls[c].beh)
      /\ IsAsync(calls[c].beh) =>
            calls[c].outcome = Return(PromiseOf("derived"))

(***************************************************************************)
(* C6: when a call of the span driver (spanStart, the status, finish) or   *)
(* of the log driver throws during the start or the end of an invocation,  *)
(* the original function is still invoked exactly once and the caller      *)
(* sees the outcome of the original function: its return value, its        *)
(* error, the settlement of its promise.                                   *)
(***************************************************************************)
C6_DriverFaultsInvisible ==
  \A c \in CallIds :
    (Began(c) /\ DriverFailed(c)) =>
      /\ calls[c].invoked = 1
      /\ SameOutcome(c)


(***************************************************************************)
(* Context data.  The data of a context is a JavaScript object, and        *)
(* _.merge copies plain objects but assigns every other object (a class    *)
(* instance, a Date, a Map) by reference, so the objects live in a store:  *)
(* objs[r] is the object with identity r, plain or not, and a field holds  *)
(* a primitive or a reference to another object of the store.              *)
(***************************************************************************)
MaxDataCtx == 3
MaxMutations == 1

DataKeys == <<"a", "b">>

Ref(r) == [t |-> "ref", v |-> r]

\* an object built by a constructor other than Object
Inst(fields) == [t |-> "instance", v |-> fields]

Only(S) == CHOOSE x \in S : TRUE

\* the object literal `tree` evaluated by the caller: its objects are
\* allocated in the store, innermost first
RECURSIVE StoreTree(_, _), StoreFields(_, _, _, _)
StoreTree(os, tree) ==
  IF tree.t \notin {"object", "instance"} THEN [objs |-> os, val |-> tree]
  ELSE Only({ [ objs |-> Append(r.objs, [plain |-> tree.t = "object",
                                         f |-> r.f]),
                val |-> Ref(Len(r.objs) + 1) ] :
              r \in {StoreFields(os, tree.v, DataKeys, EmptyRec)} })

StoreFields(os, fields, keys, acc) ==
  IF keys = <<>> THEN [objs |-> os, f |-> acc]
  ELSE IF Head(keys) \notin DOMAIN fields
       THEN StoreFields(os, fields, Tail(keys), acc)
  ELSE Only({ StoreFields(r.objs, fields, Tail(keys),
                          acc @@ (Head(keys) :> r.val)) :
              r \in {StoreTree(os, fields[Head(keys)])} })

\* the value a reader sees behind a field
RECURSIVE Deref(_, _)
Deref(os, x) ==
  IF x.t # "ref" THEN x
  ELSE [ t |-> IF os[x.v].plain THEN "object" ELSE "instance",
         v |-> [k \in DOMAIN os[x.v].f |-> Deref(os, os[x.v].f[k])] ]

\* the objects reachable from a value
RECURSIVE Reachable(_, _)
Reachable(os, x) ==
  IF x.t # "ref" THEN {}
  ELSE {x.v} \cup UNION { Reachable(os, os[x.v].f[k]) : k \in DOMAIN os[x.v].f }

\* object[key] = value
Assign(os, r, k, val) ==
  [os EXCEPT ![r].f = [j \in DOMAIN @ \cup {k} |-> IF j = k THEN val ELSE @[j]]]

IsPlainObject(os, x) == x.t = "ref" /\ os[x.v].plain

\* lodash baseMerge(object, source) on the store: a plain source value is
\* merged recursively, into the object already at the key or else into a
\* fresh one; an undefined source value leaves an existing key alone; any
\* other source value, an instance included, is assigned as it is
RECURSIVE baseMerge(_, _, _, _)
baseMerge(os, dst, src, keys) ==
  IF keys = <<>> THEN os
  ELSE IF Head(keys) \notin DOMAIN os[src].f
       THEN baseMerge(os, dst, src, Tail(keys))
  ELSE Only({
    IF IsPlainObject(os, sv)
    THEN IF Head(keys) \in DOMAIN os[dst].f /\ os[dst].f[Head(keys)].t = "ref"
         THEN baseMerge(baseMerge(os, os[dst].f[Head(keys)].v, sv.v, DataKeys),
                        dst, src, Tail(keys))
         ELSE Only({ baseMerge(baseMerge(o1, Len(o1), sv.v, DataKeys),
                               dst, src, Tail(keys)) :
                     o1 \in { Assign(Append(os, [plain |-> TRUE,
                                                 f |-> EmptyRec]),
                                     dst, Head(keys), Ref(Len(os) + 1)) } })
    ELSE IF sv.t = "undefined" /\ Head(keys) \in DOMAIN os[dst].f
    THEN baseMerge(os, dst, src, Tail(keys))
    ELSE baseMerge(Assign(os, dst, Head(keys), sv), dst, src, Tail(keys)) :
    sv \in {os[src].f[Head(keys)]} })

\* a source that is not an object contributes nothing
mergeSource(os, dst, src) ==
  IF src.t # "ref" THEN os ELSE baseMerge(os, dst, src.v, DataKeys)

\* _.merge({}, a, b)
lodashMerge(os, a, b) ==
  Only({ [ objs |-> mergeSource(o2, Len(os) + 1, b),
           val |-> Ref(Len(os) + 1) ] :
         o2 \in { mergeSource(Append(os, [plain |-> TRUE, f |-> EmptyRec]),
                              Len(os) + 1, a) } })

\* the constructor's this.data: config.data, replaced by the merge when the
\* parent has data
constructData(os, own, pdata) ==
  IF Truthy(pdata) THEN lodashMerge(os, own, pdata)
  ELSE [objs |-> os, val |-> own]

\* the data a caller passes: nothing, or one of these literals
DataShapes ==
  << Obj("a" :> Num("1")),
     Obj("a" :> Num("2") @@ "b" :> Obj("a" :> Num("1"))),
     Obj("b" :> Obj("b" :> Inst("a" :> Num("1")))) >>

InitData ==
  /\ HashIdle
  /\ ProcessAtLoad
  /\ TraceIdle
  /\ DataIdle /\ LoggerIdle /\ AdapterIdle
  /\ WrapIdle /\ KafkaIdle /\ NetIdle

\* every context's data as a reader sees it in the store
Refreshed(heap, os, refs) ==
  [i \in DOMAIN heap |-> [heap[i] EXCEPT !.data = Deref(os, refs[i].ref)]]

\* new TraceContext({parent, data}); dataRef keeps the reference the new
\* context holds, and config.data and the parent's data as they were
DataNew ==
  /\ Len(ctxs) < MaxDataCtx
  /\ \E p \in {0, Len(ctxs)}, sh \in 0..Len(DataShapes) :
       \E stored \in {IF sh = 0 THEN [objs |-> objs, val |-> Undefined]
                      ELSE StoreTree(objs, DataShapes[sh])} :
         \E built \in {constructData(stored.objs, stored.val,
                                     IF p = 0 THEN Undefined
                                     ELSE dataRef[p].ref)} :
           /\ objs' = built.objs
           /\ dataRef' = Append(dataRef,
                [ ref |-> built.val,
                  own |-> Deref(stored.objs, stored.val),
                  inherited |-> IF p = 0 THEN Undefined ELSE ctxs[p].data ])
           /\ ctxs' = Append(ctxs,
                NewTraceContext(st, ctxs,
                  Obj(Field("parent", IF p = 0 THEN Absent ELSE CtxRef(p))
                      @@ Field("data", Deref(stored.objs, stored.val)))))
  /\ origin' = Append(origin, 0)
  /\ mut' = mut
  /\ UNCHANGED <<st, inits, initLog>>
  /\ UNCHANGED hvars
  /\ UNCHANGED tvars
  /\ UNCHANGED lvars
  /\ UNCHANGED svars
  /\ UNCHANGED wvars
  /\ UNCHANGED kvars
  /\ UNCHANGED nvars

\* ctx.data.k = "M", or the same one or two levels down
DataMutate ==
  /\ mut.count < MaxMutations
  /\ \E i \in 1..Len(ctxs) :
       \E r \in Reachable(objs, dataRef[i].ref), n \in 1..Len(DataKeys) :
         \E os \in {Assign(objs, r, DataKeys[n], Str("M"))} :
           /\ objs' = os
           /\ ctxs' = Refreshed(ctxs, os, dataRef)
           /\ mut' = [count |-> mut.count + 1, ctx |-> i]
  /\ UNCHANGED <<dataRef, st, origin, inits, initLog>>
  /\ UNCHANGED hvars
  /\ UNCHANGED tvars
  /\ UNCHANGED lvars
  /\ UNCHANGED svars
  /\ UNCHANGED wvars
  /\ UNCHANGED kvars
  /\ UNCHANGED nvars

NextData == DataNew \/ DataMutate

SpecData == InitData /\ [][NextData]_vars

\* the store and the heap tell the same story: what the constructor
\* computes on values is what a reader finds behind the reference
DataAgree ==
  \A i \in 1..Len(ctxs) : ctxs[i].data = Deref(objs, dataRef[i].ref)

HasParentData(i) ==
  /\ Truthy(ctxs[i].parent)
  /\ dataRef[i].inherited.t = "object"

\* C11: a context built with parent P (data p) and own data d has the deep
\* merge of p and d as its data, d winning on every key both have, and
\* every key of p that d lacks present with P's value.
C11_ChildDataWins ==
  \A i \in 1..Len(ctxs) :
    (mut.count = 0 /\ HasParentData(i))
      => ctxs[i].data = Merge3(dataRef[i].inherited, dataRef[i].own)

\* what the constructor does: the parent's value wins on a shared key
C11_ParentDataWins ==
  \A i \in 1..Len(ctxs) :
    (mut.count = 0 /\ HasParentData(i))
      => ctxs[i].data = Merge3(dataRef[i].own, dataRef[i].inherited)

\* the part of C11 that holds: an inherited key the child does not supply
\* is present with the parent's value
C11_InheritedKeysPresent ==
  \A i \in 1..Len(ctxs) :
    (mut.count = 0 /\ HasParentData(i)) =>
      \A k \in DOMAIN dataRef[i].inherited.v :
        (dataRef[i].own.t # "object" \/ k \notin DOMAIN dataRef[i].own.v)
          => /\ k \in DOMAIN ctxs[i].data.v
             /\ ctxs[i].data.v[k] = dataRef[i].inherited.v[k]

RECURSIVE AncestorsOf(_, _)
AncestorsOf(heap, i) ==
  IF ~Truthy(heap[i].parent) THEN {}
  ELSE {heap[i].parent.v} \cup AncestorsOf(heap, heap[i].parent.v)

\* C12: a mutation of a child context's data, at any depth, leaves the
\* data of its parent and of every ancestor as it was.
C12_MutationStaysInChild ==
  [][ mut'.count > mut.count =>
        \A a \in AncestorsOf(ctxs, mut'.ctx) : ctxs'[a].data = ctxs[a].data ]_vars

RECURSIVE OnlyPlain(_)
OnlyPlain(x) ==
  /\ x.t # "instance"
  /\ x.t = "object" => \A k \in DOMAIN x.v : OnlyPlain(x.v[k])

\* the part of C12 that holds: data made of plain objects is copied
C12_PlainDataIsolated ==
  [][ (mut'.count > mut.count /\ OnlyPlain(ctxs[mut'.ctx].data)) =>
        \A a \in AncestorsOf(ctxs, mut'.ctx) : ctxs'[a].data = ctxs[a].data ]_vars



(***************************************************************************)
(* Logger.  A logger is the four fields its constructor keeps; the model   *)
(* follows one constructed logger and the loggers forked from it, and      *)
(* keeps of every call what the log driver and the trace driver received.  *)
(***************************************************************************)
MaxLoggers == 3

\* new Logger(config)
LoggerConstructor(s, config) ==
  [ traceCtx |-> Get(config, "traceCtx"),
    level |-> Coalesce(Get(config, "level"), s.loggerLevel),
    scope |-> Get(config, "scope"),
    driver |-> Get(config, "driver") ]

\* the guard of _log: no driver, no log
missingDriverNever(lg) == FALSE

missingDriver(lg) == ~Truthy(lg.driver)

\* the level filter of _log with the comparison turned round
passesFilterInverted(threshold, level) ==
  ~(LevelIndexOf(Str(level)) < 0
      \/ LevelIndexOf(Str(level)) < LevelIndexOf(threshold))

\* the level filter of _log: the call goes on unless
\* levelIdx < 0 || levelIdx > currentLevelIdx
passesFilter(threshold, level) ==
  ~(LevelIndexOf(Str(level)) < 0
      \/ LevelIndexOf(Str(level)) > LevelIndexOf(threshold))

\* `${this._scope} : ${message}`, or the message alone
scopedMessage(scope, message) ==
  IF Truthy(scope) THEN scope.v \o " : " \o message ELSE message

\* _.isPlainObject(item) && item.$ctx: the item without its $ctx
cleanItem(item) ==
  IF item.t = "object" /\ Truthy(Get(item, "$ctx"))
  THEN Obj([k \in DOMAIN item.v \ {"$ctx"} |-> item.v[k]])
  ELSE item

dataToStringify(data) == [i \in DOMAIN data |-> cleanItem(data[i])]

\* a TraceContext holds its logger and the logger holds the context, so a
\* value that holds a context holds a cycle
RECURSIVE HoldsContext(_)
HoldsContext(x) ==
  CASE x.t = "ctx" -> TRUE
    [] x.t = "object" -> \E k \in DOMAIN x.v : HoldsContext(x.v[k])
    [] x.t = "array" -> \E i \in DOMAIN x.v : HoldsContext(x.v[i])
    [] OTHER -> FALSE

\* JSON.parse(JSON.stringify(x)) inside try / catch: stringify throws a
\* TypeError on a cycle and answers undefined for undefined, which parse
\* rejects; the catch leaves plainData undefined
roundTrip(x) ==
  IF HoldsContext(x) \/ x.t = "undefined" THEN Undefined
  ELSE Only({ IF r.kind = "return" THEN r.val ELSE Undefined :
              r \in {JsonParse(JsonStringify(x))} })

\* the data handed on as it came
passThrough(data) ==
  IF Len(data) = 0 THEN Undefined
  ELSE IF Len(data) = 1 THEN data[1] ELSE Arr(data)

\* plainData of _log: the round trip is made on data, not on
\* dataToStringify
plainData(data) ==
  IF Len(data) = 0 THEN Undefined
  ELSE roundTrip(IF Len(data) = 1 THEN data[1] ELSE Arr(data))

\* what a call did: its completion, the calls the log driver received,
\* the calls of TraceContext.errorNotify and of the driver's errorNotify
Did(outcome, sent, ctxNotified, drvNotified) ==
  [ outcome |-> outcome, sent |-> sent, ctxNotified |-> ctxNotified,
    drvNotified |-> drvNotified ]

\* Logger._log(level, message, ...data)
Logger_log(lg, silent, level, message, data) ==
  IF missingDriver(lg)
  THEN Did(Throw(ErrorObj("no log driver provided")), <<>>, 0, 0)
  ELSE IF silent THEN Did(Return(Undefined), <<>>, 0, 0)
  ELSE IF ~passesFilter(lg.level, level) THEN Did(Return(Undefined), <<>>, 0, 0)
  ELSE Did(Return(Undefined),
           << [ driver |-> lg.driver, level |-> level,
                message |-> scopedMessage(lg.scope, message),
                data |-> plainData(data),
                traceCtx |-> lg.traceCtx ] >>, 0, 0)

\* TraceContext.errorNotify(error): the driver's errorNotify is called when
\* a trace driver is set, and what it throws is not caught
errorNotify(s, fault) ==
  IF Truthy(s.traceDriver)
  THEN Did(IF fault THEN Throw(DriverError) ELSE Return(Undefined), <<>>, 1, 1)
  ELSE Did(Return(Undefined), <<>>, 1, 0)

\* the methods whose body goes on to this._traceCtx.errorNotify
NotifyingMethodsWide == {"critical", "error"}

NotifyingMethods == {"critical"}

\* the level a method logs at
MethodLevel(method) == IF method = "critical" THEN "error" ELSE method

\* logger.debug / verbose / info / warn / error / critical
LoggerMethod(s, lg, silent, method, message, data, fault) ==
  Only({ IF method \notin NotifyingMethods \/ r.outcome.kind = "throw" THEN r
         ELSE IF lg.traceCtx.t # "ctx"
         THEN Did(Throw(ErrorObj("TypeError")), r.sent, 0, 0)
         ELSE Only({ Did(e.outcome, r.sent, e.ctxNotified, e.drvNotified) :
                     e \in {errorNotify(s, fault)} }) :
         r \in {Logger_log(lg, silent, MethodLevel(method), message, data)} })

\* [this._scope, scope].filter(Boolean) with the parent's scope left out
forkScopeFlat(scope, added) == ElemText(added)

\* [this._scope, scope].filter(Boolean).join(".")
forkScope(scope, added) ==
  Only({ Join([i \in DOMAIN kept |-> ElemText(kept[i])], ".") :
         kept \in {SelectSeq(<<scope, added>>, Truthy)} })

\* logger.fork(scope)
fork(s, lg, scope) ==
  LoggerConstructor(s,
    Obj(("driver" :> lg.driver)
          @@ ("scope" :> Str(forkScope(lg.scope, scope)))
          @@ ("traceCtx" :> lg.traceCtx)))

LogInitConfigs ==
  { Obj(Field("traceDriver", td) @@ Field("logLevel", ll)) :
      td \in {Absent, TraceDriver("T1")}, ll \in {Absent, Str("debug")} }

LogMethods == {"debug", "verbose", "info", "warn", "error", "critical"}

\* the ...data of a call: the shared context is context 1
LogData ==
  << <<>>,
     << Obj("a" :> Num("1")) >>,
     << Obj(("a" :> Num("1")) @@ ("$ctx" :> CtxRef(1))) >>,
     << Obj("a" :> Obj("b" :> CtxRef(1))) >>,
     << Str("t"), Obj(("b" :> Num("2")) @@ ("$ctx" :> CtxRef(1))) >>,
     << Obj("b" :> Num("2")), Str("t") >>,
     << Undefined >> >>

ForkScopes == {Str("a"), Str("b")}

\* the process after sharedInit(config), no logger made by the caller yet
InitLog ==
  /\ HashIdle
  /\ TraceIdle
  /\ DataIdle
  /\ AdapterIdle
  /\ LoggerIdle
  /\ WrapIdle /\ KafkaIdle /\ NetIdle
  /\ \E config \in LogInitConfigs :
       \E r \in {sharedInit(StaticsAtLoad, <<>>, [n \in DriverNames |-> 0],
                            config)} :
         /\ st = r.st
         /\ ctxs = r.ctxs
         /\ inits = r.inits
         /\ origin = <<0>>
         /\ initLog = [calls |-> 1, first |-> config, rets |-> {r.ret}]

\* the calls whose effect lcall records
CallOps == {"log", "errorNotify"}

\* a logger of the model: the object, and where it came from
Made(obj, from, asked) == [obj |-> obj, from |-> from, asked |-> asked]

\* new Logger({driver, level, traceCtx})
LoggerNew ==
  /\ loggers = <<>>
  /\ \E driver \in {Absent, LogDriver("L1")},
        level \in {Absent} \cup {Str(LOG_LEVELS[k]) : k \in 1..Len(LOG_LEVELS)},
        traceCtx \in {Absent, CtxRef(1)} :
       loggers' = << Made(LoggerConstructor(st,
                       Obj(Field("driver", driver) @@ Field("level", level)
                             @@ Field("traceCtx", traceCtx))), 0, Undefined) >>
  /\ lcall' = [op |-> "new"]
  /\ UNCHANGED pvars
  /\ UNCHANGED hvars
  /\ UNCHANGED tvars
  /\ UNCHANGED dvars
  /\ UNCHANGED svars
  /\ UNCHANGED wvars
  /\ UNCHANGED kvars
  /\ UNCHANGED nvars

\* loggers[l].fork(scope)
LoggerFork ==
  /\ Len(loggers) < MaxLoggers
  /\ \E l \in 1..Len(loggers), scope \in ForkScopes :
       /\ loggers' = Append(loggers, Made(fork(st, loggers[l].obj, scope),
                                          l, scope))
       /\ lcall' = [op |-> "fork"]
  /\ UNCHANGED pvars
  /\ UNCHANGED hvars
  /\ UNCHANGED tvars
  /\ UNCHANGED dvars
  /\ UNCHANGED svars
  /\ UNCHANGED wvars
  /\ UNCHANGED kvars
  /\ UNCHANGED nvars

\* loggers[l].<method>("m", ...data), LOG_SILENT set or not, the trace
\* driver's errorNotify throwing or not
LoggerCall ==
  /\ lcall.op \notin CallOps
  /\ \E l \in 1..Len(loggers), method \in LogMethods, d \in 1..Len(LogData),
        silent \in BOOLEAN, fault \in BOOLEAN :
       /\ fault => method \in NotifyingMethods
       /\ \E r \in {LoggerMethod(st, loggers[l].obj, silent, method, "m",
                                 LogData[d], fault)} :
            lcall' = [ op |-> "log", logger |-> l, method |-> method,
                       data |-> d, silent |-> silent, fault |-> fault,
                       did |-> r ]
  /\ UNCHANGED loggers
  /\ UNCHANGED pvars
  /\ UNCHANGED hvars
  /\ UNCHANGED tvars
  /\ UNCHANGED dvars
  /\ UNCHANGED svars
  /\ UNCHANGED wvars
  /\ UNCHANGED kvars
  /\ UNCHANGED nvars

\* TraceContext.shared.errorNotify(error)
CtxErrorNotify ==
  /\ lcall.op \notin CallOps
  /\ \E fault \in BOOLEAN :
       lcall' = [ op |-> "errorNotify", fault |-> fault,
                  did |-> errorNotify(st, fault) ]
  /\ UNCHANGED loggers
  /\ UNCHANGED pvars
  /\ UNCHANGED hvars
  /\ UNCHANGED tvars
  /\ UNCHANGED dvars
  /\ UNCHANGED svars
  /\ UNCHANGED wvars
  /\ UNCHANGED kvars
  /\ UNCHANGED nvars

\* the caller has read what the drivers received and clears the record
\* before the next call
CallRead ==
  /\ lcall.op \in CallOps
  /\ lcall' = NoCall
  /\ UNCHANGED loggers
  /\ UNCHANGED pvars
  /\ UNCHANGED hvars
  /\ UNCHANGED tvars
  /\ UNCHANGED dvars
  /\ UNCHANGED svars
  /\ UNCHANGED wvars
  /\ UNCHANGED kvars
  /\ UNCHANGED nvars

NextLog ==
  LoggerNew \/ LoggerFork \/ LoggerCall \/ CtxErrorNotify \/ CallRead

SpecLog == InitLog /\ [][NextLog]_vars



\* the latest call is a log call, on this logger, with these items
IsLog == lcall.op = "log"
CalledLogger == loggers[lcall.logger].obj
CalledData == LogData[lcall.data]
Reached == Len(lcall.did.sent) > 0

\* error, warn, info, debug, verbose, most to least severe
Severity == [error |-> 5, warn |-> 4, info |-> 3, debug |-> 2, verbose |-> 1]

HasThreshold(lg) == lg.level.t = "string" /\ lg.level.v \in DOMAIN Severity

\* C13: with silent mode off, a call at level L on a logger (with a driver)
\* whose threshold is T reaches the log driver iff L is at least as severe
\* as T, for every T and L among error, warn, info, debug, verbose.
C13_LevelFilter ==
  (IsLog /\ ~lcall.silent /\ ~missingDriver(CalledLogger)
     /\ HasThreshold(CalledLogger))
    => (Reached <=> Severity[MethodLevel(lcall.method)]
                      >= Severity[CalledLogger.level.v])

\* a debug call on a logger at info has been dropped
C13_Witness ==
  /\ IsLog /\ ~lcall.silent /\ ~missingDriver(CalledLogger)
  /\ CalledLogger.level = Str("info")
  /\ lcall.method = "debug"
  /\ ~Reached

\* C14: a Logger constructed without a driver exists, and every log call
\* on it, at any level, silent mode on or off, throws the no-driver error
\* and hands nothing to any driver.
C14_NoDriverThrowsAtLog ==
  (IsLog /\ ~Truthy(CalledLogger.driver))
    => /\ lcall.did.outcome = Throw(ErrorObj("no log driver provided"))
       /\ ~Reached

\* a verbose call, which the filter would drop, has thrown
C14_Witness ==
  /\ IsLog /\ ~Truthy(CalledLogger.driver)
  /\ lcall.method = "verbose"
  /\ lcall.did.outcome.kind = "throw"

CarriesCtx(item) == item.t = "object" /\ Get(item, "$ctx").t = "ctx"

\* C15: when a call that reaches the driver was given a plain object with
\* a context under $ctx, the driver receives the data without the $ctx
\* members: the rest of the payload arrives.
C15_PayloadDelivered ==
  (IsLog /\ Reached /\ \E i \in DOMAIN CalledData : CarriesCtx(CalledData[i]))
    => lcall.did.sent[1].data
         = roundTrip(passThrough(dataToStringify(CalledData)))

\* what the driver receives instead: nothing
C15_PayloadLost ==
  (IsLog /\ Reached /\ \E i \in DOMAIN CalledData : CarriesCtx(CalledData[i]))
    => lcall.did.sent[1].data = Undefined

\* C16: the data a log call hands to the driver holds no TraceContext, at
\* the top level or nested; the context travels in opts.traceCtx only.
C16_NoContextInData ==
  (IsLog /\ Reached)
    => /\ ~HoldsContext(lcall.did.sent[1].data)
       /\ lcall.did.sent[1].traceCtx = CalledLogger.traceCtx

\* a call given a context nested in its data has reached the driver
C16_Witness ==
  /\ IsLog /\ Reached
  /\ HoldsContext(passThrough(CalledData))
  /\ CalledLogger.traceCtx = CtxRef(1)

\* C17: critical on a logger that has a driver and an owning context logs
\* at error level (one message when the call passes the filter) and calls
\* the context's errorNotify exactly once; debug, verbose, info, warn and
\* error never call errorNotify.
C17_CriticalNotifiesOnce ==
  IsLog =>
    /\ (lcall.method = "critical" /\ ~missingDriver(CalledLogger)
          /\ CalledLogger.traceCtx.t = "ctx")
         => /\ lcall.did.ctxNotified = 1
            /\ \A i \in DOMAIN lcall.did.sent : lcall.did.sent[i].level = "error"
            /\ (~lcall.silent /\ HasThreshold(CalledLogger))
                 => Len(lcall.did.sent) = 1
    /\ lcall.method # "critical"
         => lcall.did.ctxNotified = 0 /\ lcall.did.drvNotified = 0

\* a critical call has logged and has notified the trace driver
C17_Witness ==
  /\ IsLog /\ lcall.method = "critical"
  /\ Reached
  /\ lcall.did.sent[1].level = "error"
  /\ lcall.did.ctxNotified = 1
  /\ lcall.did.drvNotified = 1

\* C18: when the trace driver's errorNotify throws, TraceContext.errorNotify
\* and Logger.critical return normally.
C18_NotifyFailureSwallowed ==
  (lcall.op \in CallOps /\ lcall.fault /\ lcall.did.drvNotified = 1)
    => lcall.did.outcome.kind = "return"

\* the scope the forks leading to logger i asked for, joined with dots
RECURSIVE ScopePath(_, _)
ScopePath(lgs, i) ==
  IF lgs[i].from = 0 THEN ""
  ELSE IF ScopePath(lgs, lgs[i].from) = "" THEN lgs[i].asked.v
  ELSE ScopePath(lgs, lgs[i].from) \o "." \o lgs[i].asked.v

\* C19: a forked logger has the driver and the trace context of the logger
\* it was forked from and the dotted path of the fork scopes as its scope,
\* which prefixes every message it emits; the logger it was forked from
\* keeps its scope and its messages whatever is forked from it.
C19_ForkScopes ==
  /\ \A i \in 1..Len(loggers) :
       IF loggers[i].from = 0 THEN loggers[i].obj.scope = Undefined
       ELSE /\ loggers[i].obj.driver = loggers[loggers[i].from].obj.driver
            /\ loggers[i].obj.traceCtx = loggers[loggers[i].from].obj.traceCtx
            /\ loggers[i].obj.scope = Str(ScopePath(loggers, i))
  /\ (IsLog /\ Reached)
       => lcall.did.sent[1].message
            = (IF lcall.logger = 1 THEN "m"
               ELSE ScopePath(loggers, lcall.logger) \o " : m")

\* fork("a").fork("b") has logged under a.b
C19_Witness ==
  /\ Len(loggers) = 3
  /\ loggers[2].from = 1 /\ loggers[3].from = 2
  /\ IsLog /\ lcall.logger = 3 /\ Reached
  /\ lcall.did.sent[1].message = "a.b : m"



(***************************************************************************)
(* The trace driver adapters.  spanStart answers a span: a child of a      *)
(* live span, a span that continues the remote trace a hash names, or a    *)
(* new root.                                                               *)
(***************************************************************************)
MaxSpans == 3

Adapters == {"sentry", "jaeger"}

\* a span an adapter made: how it was started, under which live span,
\* continuing which remote trace
SpanOf(how, childOf, remote) ==
  [how |-> how, childOf |-> childOf, remote |-> remote]

\* SentryTraceDriverSpan.childStart / JaegerTraceDriverSpan.childStart:
\* startChild, and startSpan with childOf, on the span itself
childStart(parent) == Return(SpanOf("child", parent, Undefined))

\* SentryTraceDriver.spanStart(opName, config = {})
SentrySpanStart(config) ==
  Only({ IF ~Truthy(Get(c, "parent"))
         THEN IF Truthy(Get(c, "parentHash"))
              THEN Return(SpanOf("continued", Undefined, Get(c, "parentHash")))
              ELSE Return(SpanOf("root", Undefined, Undefined))
         ELSE childStart(Get(c, "parent")) :
         c \in {IF config.t = "undefined" THEN Obj(EmptyRec) ELSE config} })

\* JaegerTraceDriver.spanStart(opName, config?): the hash is looked at
\* first, and startSpan knows childOf and references but no parent
JaegerSpanStart(config) ==
  IF config.t = "undefined" THEN Throw(ErrorObj("TypeError"))
  ELSE IF Truthy(Get(config, "parentHash"))
  THEN Return(SpanOf("continued", Undefined, Get(config, "parentHash")))
  ELSE Return(SpanOf("root", Undefined, Undefined))

spanStart(adapter, config) ==
  IF adapter = "sentry" THEN SentrySpanStart(config)
  ELSE JaegerSpanStart(config)

\* the live spans of an adapter
LiveSpans(adapter) ==
  { i \in 1..Len(adapted) :
      adapted[i].adapter = adapter /\ adapted[i].result.kind = "return" }

SpanHashes == {Absent, Str(""), Str("h")}

InitSpan ==
  /\ HashIdle
  /\ ProcessAtLoad
  /\ TraceIdle
  /\ DataIdle
  /\ LoggerIdle
  /\ AdapterIdle
  /\ WrapIdle /\ KafkaIdle /\ NetIdle

\* driver.spanStart("op", {parent, parentHash})
SpanStart ==
  /\ Len(adapted) < MaxSpans
  /\ \E adapter \in Adapters, parentHash \in SpanHashes :
       \E parent \in {Absent} \cup {SpanRef(i) : i \in LiveSpans(adapter)} :
         \E config \in {Obj(Field("parent", parent)
                              @@ Field("parentHash", parentHash))} :
           adapted' = Append(adapted,
                        [ adapter |-> adapter, config |-> config,
                          result |-> spanStart(adapter, config),
                          native |-> Undefined ])
  /\ UNCHANGED pvars
  /\ UNCHANGED hvars
  /\ UNCHANGED tvars
  /\ UNCHANGED dvars
  /\ UNCHANGED lvars
  /\ UNCHANGED wvars
  /\ UNCHANGED kvars
  /\ UNCHANGED nvars
  /\ wrote' = wrote

\* driver.spanStart("op")
SpanStartBare ==
  /\ Len(adapted) < MaxSpans
  /\ \E adapter \in Adapters :
       adapted' = Append(adapted,
                    [ adapter |-> adapter, config |-> Undefined,
                      result |-> spanStart(adapter, Undefined),
                      native |-> Undefined ])
  /\ UNCHANGED pvars
  /\ UNCHANGED hvars
  /\ UNCHANGED tvars
  /\ UNCHANGED dvars
  /\ UNCHANGED lvars
  /\ UNCHANGED wvars
  /\ UNCHANGED kvars
  /\ UNCHANGED nvars
  /\ wrote' = wrote

NextSpan == SpanStart \/ SpanStartBare

SpecSpan == InitSpan /\ [][NextSpan]_vars

\* what the contract of spanStart asks of one call
PrefersParent(a) ==
  IF Truthy(Get(a.config, "parent"))
  THEN a.result = Return(SpanOf("child", Get(a.config, "parent"), Undefined))
  ELSE IF Truthy(Get(a.config, "parentHash"))
  THEN a.result
         = Return(SpanOf("continued", Undefined, Get(a.config, "parentHash")))
  ELSE a.result = Return(SpanOf("root", Undefined, Undefined))

\* C20: for every adapter, spanStart given config.parent answers a child
\* of that span (through its childStart) whether or not config.parentHash
\* is given; given only config.parentHash it continues the remote trace;
\* given neither it starts a new root span.
C20_ParentBeforeHash ==
  \A i \in 1..Len(adapted) :
    adapted[i].config.t = "object" => PrefersParent(adapted[i])

\* the Sentry adapter keeps the order
C20_SentryParentBeforeHash ==
  \A i \in 1..Len(adapted) :
    adapted[i].adapter = "sentry" => PrefersParent(adapted[i])



(***************************************************************************)
(* The status of a span.  Every adapter span has a status accessor; the    *)
(* Sentry span keeps the status in the backend span, in the backend's      *)
(* words, the Jaeger span keeps none.                                      *)
(***************************************************************************)
\* enum SpanStatus: the values, in the order of the declaration
SpanStatus ==
  << "aborted", "already_exists", "cancelled", "data_loss",
     "deadline_exceeded", "failed_precondition", "internal_error",
     "invalid_argument", "not_found", "ok", "out_of_range",
     "permission_denied", "resource_exhausted", "unauthenticated",
     "unavailable", "unimplemented", "unknown_error" >>

\* the cases of the switch of ourSpanStatusToTheir: <<case, returned>>
OurToTheirCases ==
  << <<"aborted", "aborted">>, <<"already_exists", "already_exists">>,
     <<"cancelled", "cancelled">>, <<"data_loss", "data_loss">>,
     <<"deadline_exceeded", "deadline_exceeded">>,
     <<"failed_precondition", "failed_precondition">>,
     <<"internal_error", "internal_error">>,
     <<"invalid_argument", "invalid_argument">>,
     <<"not_found", "not_found">>, <<"ok", "ok">>,
     <<"out_of_range", "out_of_range">>,
     <<"permission_denied", "permission_denied">>,
     <<"resource_exhausted", "resource_exhausted">>,
     <<"unauthenticated", "unauthenticated">>,
     <<"unavailable", "unavailable">>, <<"unimplemented", "unimplemented">>,
     <<"unknown_error", "unknown_error">> >>

\* the cases of the switch of theirSpanStatusToOur
TheirToOurCases ==
  << <<"aborted", "aborted">>, <<"already_exists", "already_exists">>,
     <<"cancelled", "cancelled">>, <<"data_loss", "data_loss">>,
     <<"deadline_exceeded", "deadline_exceeded">>,
     <<"failed_precondition", "failed_precondition">>,
     <<"internal_error", "internal_error">>,
     <<"invalid_argument", "invalid_argument">>,
     <<"not_found", "not_found">>, <<"ok", "ok">>,
     <<"out_of_range", "out_of_range">>,
     <<"permission_denied", "permission_denied">>,
     <<"resource_exhausted", "resource_exhausted">>,
     <<"unauthenticated", "unauthenticated">>,
     <<"unavailable", "unavailable">>, <<"unimplemented", "unimplemented">>,
     <<"unknown_error", "unknown_error">> >>

\* if (!status) return null; switch (status) { case ...; default: null }
Switch(cases, status) ==
  IF ~Truthy(status) THEN Null
  ELSE IF status.t = "string" /\ \E k \in 1..Len(cases) : cases[k][1] = status.v
  THEN Str(cases[CHOOSE k \in 1..Len(cases) : cases[k][1] = status.v][2])
  ELSE Null

ourSpanStatusToTheir(status) == Switch(OurToTheirCases, status)

theirSpanStatusToOur(status) == Switch(TheirToOurCases, status)

\* get status()
statusGet(span) ==
  IF span.adapter = "sentry" THEN theirSpanStatusToOur(span.native) ELSE OK

\* span.status = status: the Sentry span has a setter; the Jaeger span has
\* a getter only, so the assignment throws a TypeError in strict code and
\* is ignored in sloppy code
statusSet(span, status) ==
  IF span.adapter = "sentry"
  THEN { [ span |-> [span EXCEPT !.native = ourSpanStatusToTheir(status)],
           outcome |-> Return(Undefined) ] }
  ELSE { [span |-> span, outcome |-> Throw(ErrorObj("TypeError"))],
         [span |-> span, outcome |-> Return(Undefined)] }

\* what a caller assigns
AssignedStatuses == {Str(SpanStatus[k]) : k \in 1..Len(SpanStatus)}

\* what the backend may hold: its own words for the vocabulary, a status the
\* vocabulary does not know, none
NativeStatuses ==
  {Str(OurToTheirCases[k][2]) : k \in 1..Len(OurToTheirCases)}
    \cup {Str("http_418"), Undefined}

\* one span of each adapter has been started
InitStatus ==
  /\ HashIdle
  /\ ProcessAtLoad
  /\ TraceIdle
  /\ DataIdle
  /\ LoggerIdle
  /\ WrapIdle /\ KafkaIdle /\ NetIdle
  /\ wrote = NoWrite
  /\ adapted = << [ adapter |-> "sentry", config |-> Obj(EmptyRec),
                    result |-> spanStart("sentry", Obj(EmptyRec)),
                    native |-> Undefined ],
                  [ adapter |-> "jaeger", config |-> Obj(EmptyRec),
                    result |-> spanStart("jaeger", Obj(EmptyRec)),
                    native |-> Undefined ] >>

\* span.status = s
StatusAssign ==
  /\ \E i \in 1..Len(adapted), s \in AssignedStatuses :
       \E r \in statusSet(adapted[i], s) :
         /\ adapted' = [adapted EXCEPT ![i] = r.span]
         /\ wrote' = [ op |-> "set", span |-> i, value |-> s,
                       outcome |-> r.outcome ]
  /\ UNCHANGED pvars
  /\ UNCHANGED hvars
  /\ UNCHANGED tvars
  /\ UNCHANGED dvars
  /\ UNCHANGED lvars
  /\ UNCHANGED wvars
  /\ UNCHANGED kvars
  /\ UNCHANGED nvars

\* the backend gives the Sentry span a status of its own
BackendStatus ==
  /\ \E i \in 1..Len(adapted), n \in NativeStatuses :
       /\ adapted[i].adapter = "sentry"
       /\ adapted' = [adapted EXCEPT ![i].native = n]
  /\ wrote' = NoWrite
  /\ UNCHANGED pvars
  /\ UNCHANGED hvars
  /\ UNCHANGED tvars
  /\ UNCHANGED dvars
  /\ UNCHANGED lvars
  /\ UNCHANGED wvars
  /\ UNCHANGED kvars
  /\ UNCHANGED nvars

NextStatus == StatusAssign \/ BackendStatus

SpecStatus == InitStatus /\ [][NextStatus]_vars

\* the status a span reads as is the one last assigned to it
ReadsBack(i) ==
  (wrote.op = "set" /\ wrote.span = i)
    => /\ wrote.outcome.kind = "return"
       /\ statusGet(adapted[i]) = wrote.value

\* a backend status the vocabulary does not know reads as null
UnknownReadsNull(i) ==
  (adapted[i].native.t = "string"
     /\ \A k \in 1..Len(SpanStatus) : SpanStatus[k] # adapted[i].native.v)
    => statusGet(adapted[i]) = Null

\* C21: for every adapter and every status s of the vocabulary, the
\* assignment span.status = s succeeds and span.status then reads s; a
\* backend status outside the vocabulary reads as null.
C21_StatusRoundTrip ==
  \A i \in 1..Len(adapted) : ReadsBack(i) /\ UnknownReadsNull(i)

\* the Sentry span does both
C21_SentryStatusRoundTrip ==
  \A i \in 1..Len(adapted) :
    adapted[i].adapter = "sentry" => ReadsBack(i) /\ UnknownReadsNull(i)



(***************************************************************************)
(* traceFinish called by hand, any number of times, on contexts that were  *)
(* started by hand.                                                        *)
(***************************************************************************)
\* most contexts started by hand
MaxStarted == 2

\* most calls of traceFinish on one context
MaxFinishCalls == 3

FinishStatuses == {OK, INTERNAL_ERROR, Str("aborted")}

\* sharedInit has run
InitFinish ==
  /\ HashIdle
  /\ DataIdle /\ LoggerIdle /\ AdapterIdle
  /\ WrapIdle /\ KafkaIdle /\ NetIdle
  /\ \E config \in TraceInitConfigs :
       \E r \in {sharedInit(StaticsAtLoad, <<>>, [n \in DriverNames |-> 0],
                            config)} :
         /\ st = r.st
         /\ ctxs = r.ctxs
         /\ inits = r.inits
         /\ origin = <<0>>
         /\ initLog = [calls |-> 1, first |-> config, rets |-> {r.ret}]
  /\ spans = <<>>
  /\ dlog = <<>>
  /\ calls = [c \in CallIds |-> IdleCall]

\* ctx = new TraceContext({fnName, autoTracing, parent}); ctx.traceStart()
CtxTraceStart ==
  /\ Len(ctxs) < 1 + MaxStarted
  /\ \E fn \in {Str("f"), Str("g"), Absent}, auto \in {Absent, Bool(FALSE)} :
       \E c \in {NewTraceContext(st, ctxs,
                   Obj(Field("fnName", fn) @@ Field("autoTracing", auto)
                         @@ Field("parent", st.shared)))} :
         \E m \in {traceStart(st,
                     [ heap |-> Append(ctxs, c), spans |-> spans,
                       dlog |-> dlog, hist |-> <<>>, n |-> 0,
                       exc |-> NoOutcome ], {}, Len(ctxs) + 1)} :
           /\ ctxs' = m.heap
           /\ spans' = m.spans
           /\ dlog' = m.dlog
  /\ origin' = Append(origin, 0)
  /\ UNCHANGED <<st, inits, initLog, calls>>
  /\ UNCHANGED hvars
  /\ UNCHANGED dvars
  /\ UNCHANGED lvars
  /\ UNCHANGED svars
  /\ UNCHANGED wvars
  /\ UNCHANGED kvars
  /\ UNCHANGED nvars

\* ctx.traceFinish(status)
CtxTraceFinish ==
  /\ \E i \in 1..Len(ctxs), status \in FinishStatuses :
       /\ Truthy(ctxs[i].span) =>
            spans[ctxs[i].span.v].finishes < MaxFinishCalls
       /\ \E m \in {traceFinish(
                     [ heap |-> ctxs, spans |-> spans, dlog |-> dlog,
                       hist |-> <<>>, n |-> 0, exc |-> NoOutcome ],
                     {}, i, status)} :
            /\ ctxs' = m.heap
            /\ spans' = m.spans
            /\ dlog' = m.dlog
  /\ UNCHANGED <<st, origin, inits, initLog, calls>>
  /\ UNCHANGED hvars
  /\ UNCHANGED dvars
  /\ UNCHANGED lvars
  /\ UNCHANGED svars
  /\ UNCHANGED wvars
  /\ UNCHANGED kvars
  /\ UNCHANGED nvars

NextFinish == CtxTraceStart \/ CtxTraceFinish

SpecFinish == InitFinish /\ [][NextFinish]_vars

\* a step leaves every span that was finished before it as it was
FinishedSpansKept ==
  \A k \in 1..Len(spans) :
    spans[k].finishes >= 1 => spans'[k] = spans[k]

\* C22: a call of traceFinish on a context whose span has been finished is
\* a no-op: it does not call span.finish() again and does not change the
\* status of the span.
C22_SecondFinishNoOp == [][FinishedSpansKept]_vars



(***************************************************************************)
(* The root of a context's parent chain.                                   *)
(***************************************************************************)
\* context i is the shared context or has it among its ancestors
RootedAtShared(s, heap, i) ==
  isShared(s, i) \/ \E a \in AncestorsOf(heap, i) : isShared(s, a)

\* the wrap and the arguments of call c give no parent: no config.parent,
\* no context and no hash among the arguments, none at traceHashArgPath
NoParentGiven(c) ==
  \E found \in {ResolveParent(calls[c].wrap.config, calls[c].args)} :
    ~Truthy(found.ctx) /\ ~Truthy(found.hash)

\* call c got as far as creating its context
ContextMade(c) == Began(c) /\ calls[c].ctx \in 1..Len(ctxs)

\* C23: after sharedInit there is one shared context, and the context of
\* an instrumented call that was given no parent and no hash has the
\* shared context as the root of its parent chain.
C23_RootedAtShared ==
  /\ Truthy(st.shared)
  /\ \A c \in CallIds :
       (ContextMade(c) /\ NoParentGiven(c))
         => RootedAtShared(st, ctxs, calls[c].ctx)

\* there is one shared context, and the context of a call that was handed
\* a live context has the root that context has
C23_GivenParentIsParent ==
  /\ Truthy(st.shared)
  /\ \A c \in CallIds :
       ContextMade(c) =>
         \E found \in {ResolveParent(calls[c].wrap.config, calls[c].args)} :
           Truthy(found.ctx) => ctxs[calls[c].ctx].parent = found.ctx



(***************************************************************************)
(* The ids of the contexts of one process.                                 *)
(***************************************************************************)
\* the contexts i and j, two instances, carry the same id
SameId(i, j) == i # j /\ ctxs[i].id = ctxs[j].id

\* C24: any two distinct contexts alive in the process, made by the
\* constructor or by fromHash, have different ids (and no step changes the
\* id of a context).
C24_IdsUnique ==
  \A i \in 1..Len(ctxs), j \in 1..Len(ctxs) : ~SameId(i, j)

\* no step changes the id of a context
C24_IdNeverChanges ==
  [][\A i \in 1..Len(ctxs) : ctxs'[i].id = ctxs[i].id]_vars

\* two contexts with one id: one of them was rebuilt from a hash, of the
\* other or of what the other was rebuilt from
C24_OnlyRebuiltShareId ==
  \A i \in 1..Len(ctxs), j \in 1..Len(ctxs) :
    SameId(i, j) => origin[i] # 0 \/ origin[j] # 0



(***************************************************************************)
(* Two invocations in flight at once: the wrapped functions f and g are    *)
(* called with the context P of their caller, each returns a promise, and  *)
(* the promises settle in any order.                                       *)
(***************************************************************************)
PairIds == {"f", "g"}

\* P, the context of the caller: the second context of the process
PairParent == CtxRef(2)

\* traceFn({fnName}, ...) of f and of g
PairWrap(c) ==
  IF c = "f" THEN Wrap("fnName" :> Str("f"), <<"a", "$ctx">>)
  ELSE Wrap(("fnName" :> Str("g")) @@ ("className" :> Str("A")),
            <<"props">>)

\* f(1, P) and g({$ctx: P})
PairArgs(c) ==
  IF c = "f" THEN <<Num("1"), PairParent>>
  ELSE <<Obj("$ctx" :> PairParent)>>

\* what the promise of the original function does
PairBehaviours ==
  { Beh("resolve", Num("42")), Beh("reject", ErrorObj("E")),
    Beh("reject", Null) }

InitPair ==
  /\ HashIdle
  /\ DataIdle /\ LoggerIdle /\ AdapterIdle
  /\ WrapIdle /\ KafkaIdle /\ NetIdle
  /\ \E config \in TraceInitConfigs :
       \E r \in {sharedInit(StaticsAtLoad, <<>>, [n \in DriverNames |-> 0],
                            config)} :
         \E m \in {traceStart(r.st,
                     [ heap |-> Append(r.ctxs,
                          NewTraceContext(r.st, r.ctxs,
                            Obj(("fnName" :> Str("caller"))
                                  @@ ("parent" :> r.ret)))),
                       spans |-> <<>>, dlog |-> <<>>, hist |-> <<>>,
                       n |-> 0, exc |-> NoOutcome ], {}, Len(r.ctxs) + 1)} :
           /\ st = r.st
           /\ ctxs = m.heap
           /\ spans = m.spans
           /\ dlog = m.dlog
           /\ inits = r.inits
           /\ origin = <<0, 0>>
           /\ initLog = [calls |-> 1, first |-> config, rets |-> {r.ret}]
  /\ calls = [c \in PairIds |-> IdleCall]

\* f or g is called while the other may be pending
InvokePair(c) ==
  /\ calls[c].pc = "idle"
  /\ \E beh \in PairBehaviours :
       Called(c, PairWrap(c), PairArgs(c), beh, {})

NextPair == \E c \in PairIds : InvokePair(c) \/ Settle(c)

SpecPair == InitPair /\ [][NextPair]_vars

\* the records the log driver got from the logger of context i
LogsOn(i, message) ==
  { j \in 1..Len(dlog) : dlog[j].ctx = i /\ dlog[j].message = message }

\* the verbose level passes
VerboseOn == st.logLevel = Str("verbose")

\* the tracer has a driver to start spans with
DriverOn == Truthy(st.traceDriver)

\* the invocation has its own context, and its parent is P
OwnContext(c) ==
  /\ calls[c].ctx \in 1..Len(ctxs)
  /\ ctxs[calls[c].ctx].parent = PairParent
  /\ \A d \in PairIds \ {c} : Began(d) => calls[d].ctx # calls[c].ctx

\* the start of the invocation is on its own context: one start record,
\* one span
StartedOnOwn(c) ==
  /\ VerboseOn => Cardinality(LogsOn(calls[c].ctx, "start")) = 1
  /\ DriverOn => Truthy(ctxs[calls[c].ctx].span)
  /\ \A d \in PairIds \ {c} :
       Began(d) => ctxs[calls[d].ctx].span # ctxs[calls[c].ctx].span
                     \/ ~DriverOn

\* the end of the invocation is on its own context: one end record, the
\* span finished once
EndedOnOwn(c) ==
  /\ VerboseOn => Cardinality(LogsOn(calls[c].ctx, "end")) = 1
  /\ DriverOn => spans[ctxs[calls[c].ctx].span.v].finishes = 1

\* nothing of the end has happened on the context of the invocation
NotEnded(c) ==
  /\ LogsOn(calls[c].ctx, "end") = {}
  /\ DriverOn => spans[ctxs[calls[c].ctx].span.v].finishes = 0

\* C25: for every interleaving of asynchronous invocations of f and g with
\* the same parent P, each invocation has its own context with parent P,
\* its start log and span start are on that context, and once it has
\* settled it has one end log and one span finish on that context, as many
\* as starts; before, it has none.
C25_PairsEndAsStarted ==
  \A c \in PairIds :
    Began(c) =>
      /\ OwnContext(c)
      /\ StartedOnOwn(c)
      /\ IF Finished(c) THEN EndedOnOwn(c) ELSE NotEnded(c)

\* the same, for the promises that resolve or are rejected with a reason
\* that is neither null nor undefined
C25_PairsEndAsStartedNonNullish ==
  \A c \in PairIds :
    (Began(c) /\ ~(calls[c].beh.kind = "reject" /\ Nullish(calls[c].beh.val)))
      => /\ OwnContext(c)
         /\ StartedOnOwn(c)
         /\ IF Finished(c) THEN EndedOnOwn(c) ELSE NotEnded(c)



(***************************************************************************)
(* The names of the parameters of a function.  getFnArgNames reads them    *)
(* off fn.toString() with regular expressions.  The text of a function is  *)
(* kept as the sequence of its lexical units: a run of name characters     *)
(* [\w\d-_$], or one other character ("/*" and "*/" are one unit each).    *)
(* No expression below splits a unit, and a run of name characters is a    *)
(* run of adjacent name units.                                             *)
(***************************************************************************)
\* most functions wrapped
MaxWrapped == 2

\* the units that are no name characters
Punctuation ==
  { "(", ")", ",", "=", ">", "{", "}", "[", "]", ".", "...", ":", "\"",
    "/*", "*/", " ", "\n" }

IsNameUnit(u) == u \notin Punctuation

\* the units of a sequence, written one after the other
UnitsText(units) == Join(units, "")

\* s without its first n units
Drop(s, n) == SubSeq(s, n + 1, Len(s))

\* the first index from `from` on at which s has unit u, 0 when none
IndexFrom(s, u, from) ==
  IF \E j \in from..Len(s) : s[j] = u
  THEN CHOOSE j \in from..Len(s) :
         s[j] = u /\ \A h \in from..(j - 1) : s[h] # u
  ELSE 0

\* the index of the last unit of the run of name units that starts at i
\* (i - 1 when s has no name unit at i)
NameRunEnd(s, i) ==
  CHOOSE j \in (i - 1)..Len(s) :
    /\ \A h \in i..j : IsNameUnit(s[h])
    /\ j < Len(s) => ~IsNameUnit(s[j + 1])

\* [\w\d-_$]+ followed by unit u, at index i
NameThen(s, i, u) ==
  \E j \in {NameRunEnd(s, i)} :
    j >= i /\ j < Len(s) /\ s[j + 1] = u

\* fn.toString().replace(/\n| /g, "")
Unspaced(s) == SelectSeq(s, LAMBDA u : u \notin {" ", "\n"})

\* the lookahead of FN_SIGN at index e: \) ?(?:=>|{)
ClosesSignature(s, e) ==
  /\ s[e] = ")"
  /\ \/ e + 2 <= Len(s) /\ s[e + 1] = "=" /\ s[e + 2] = ">"
     \/ e + 1 <= Len(s) /\ s[e + 1] = "{"

\* FN_SIGN.exec(fnStr): group 1, or no match.  The expression is not
\* anchored, its prefix stops at the first "(", and the lazy group grows
\* to the first ")" its lookahead accepts.
FN_SIGN(s) ==
  Only({ IF q = 0 \/ ~\E e \in (q + 1)..Len(s) : ClosesSignature(s, e)
         THEN [matched |-> FALSE, group |-> <<>>]
         ELSE [ matched |-> TRUE,
                group |-> SubSeq(s, q + 1,
                            (CHOOSE e \in (q + 1)..Len(s) :
                               /\ ClosesSignature(s, e)
                               /\ \A h \in (q + 1)..(e - 1) :
                                    ~ClosesSignature(s, h)) - 1) ] :
           q \in {IndexFrom(s, "(", 1)} })

\* argsStr.replace(/\(/, "")
RemoveFirstParen(s) ==
  Only({ IF q = 0 THEN s ELSE SubSeq(s, 1, q - 1) \o Drop(s, q) :
           q \in {IndexFrom(s, "(", 1)} })

\* argsStr.replace(/\/\*.*?\*\//g, "")
RECURSIVE RemoveComments(_)
RemoveComments(s) ==
  Only({ IF ab[2] = 0 THEN s
         ELSE SubSeq(s, 1, ab[1] - 1) \o RemoveComments(Drop(s, ab[2])) :
           ab \in { <<a, IF a = 0 THEN 0 ELSE IndexFrom(s, "*/", a + 1)>> :
                      a \in {IndexFrom(s, "/*", 1)} } })

\* the auxiliary comma at the end
WithComma(s) ==
  IF Len(s) > 0 /\ s[Len(s)] # "," THEN Append(s, ",") ELSE s

NoMatch == [matched |-> FALSE, name |-> "", len |-> 0]
Match(name, len) == [matched |-> TRUE, name |-> name, len |-> len]

\* /^([\w\d-_$]+),/
SimpleArg(s) ==
  IF NameThen(s, 1, ",")
  THEN Match(UnitsText(SubSeq(s, 1, NameRunEnd(s, 1))), NameRunEnd(s, 1) + 1)
  ELSE NoMatch

\* ^([^ =]+)= : the index of the "=", 0 when the expression fails
ParamEq(s) ==
  Only({ IF k >= 2 THEN k ELSE 0 : k \in {IndexFrom(s, "=", 1)} })

\* ((?:[^=]|=>)+?)(?=,[\w\d-_$]+,) from index j on: the index of the last
\* unit of the group, 0 when the expression fails
RECURSIVE LazyToSimple(_, _, _)
LazyToSimple(s, j, some) ==
  IF some /\ j <= Len(s) /\ s[j] = "," /\ NameThen(s, j + 1, ",")
  THEN j - 1
  ELSE IF j > Len(s) THEN 0
  ELSE IF s[j] # "=" THEN LazyToSimple(s, j + 1, TRUE)
  ELSE IF j < Len(s) /\ s[j + 1] = ">" THEN LazyToSimple(s, j + 2, TRUE)
  ELSE 0

\* /^([^ =]+)=((?:[^=]|=>)+?)(?=,[\w\d-_$]+,)/
ParamThenSimple(s) ==
  Only({ IF ke[2] = 0 THEN NoMatch
         ELSE Match(UnitsText(SubSeq(s, 1, ke[1] - 1)), ke[2]) :
           ke \in { <<k, IF k = 0 THEN 0 ELSE LazyToSimple(s, k + 1, FALSE)>> :
                      k \in {ParamEq(s)} } })

\* /^([^ =]+)=(.+?)(?=,[\w\d-_$]+=)/
ParamThenParam(s) ==
  Only({ IF k = 0 \/ ~\E j \in (k + 2)..Len(s) :
                        s[j] = "," /\ NameThen(s, j + 1, "=")
         THEN NoMatch
         ELSE Match(UnitsText(SubSeq(s, 1, k - 1)),
                    (CHOOSE j \in (k + 2)..Len(s) :
                       /\ s[j] = "," /\ NameThen(s, j + 1, "=")
                       /\ \A h \in (k + 2)..(j - 1) :
                            ~(s[h] = "," /\ NameThen(s, h + 1, "="))) - 1) :
           k \in {ParamEq(s)} })

\* /^([^ =]+)=(.+),$/
ParamAtEnd(s) ==
  Only({ IF k = 0 \/ Len(s) < k + 2 \/ s[Len(s)] # "," THEN NoMatch
         ELSE Match(UnitsText(SubSeq(s, 1, k - 1)), Len(s)) :
           k \in {ParamEq(s)} })

\* for (const rgx of FN_ARG_REGEXES): the first expression that matches
FN_ARG_REGEXES(s) ==
  IF NameThen(s, 1, ",") THEN SimpleArg(s)
  ELSE Only({ IF m2.matched THEN m2
              ELSE Only({ IF m3.matched THEN m3 ELSE ParamAtEnd(s) :
                            m3 \in {ParamThenParam(s)} }) :
                m2 \in {ParamThenSimple(s)} })

MAX_TRIES == 150

\* argsStr.replace(match[0], "") and the comma that is left in front
AfterMatch(s, len) ==
  Only({ IF Len(rest) > 0 /\ rest[1] = "," THEN Tail(rest) ELSE rest :
           rest \in {Drop(s, len)} })

\* the while loop: [argsStr, argNames, tryCount] at its end.  A try in
\* which no expression matches changes nothing but tryCount, and so does
\* every try after it: the loop ends at MAX_TRIES with argsStr as it is.
RECURSIVE ArgLoop(_)
ArgLoop(l) ==
  IF ~(Len(l.argsStr) > 0 /\ l.tryCount < MAX_TRIES) THEN l
  ELSE Only({ ArgLoop(next) :
                next \in { IF m.matched
                           THEN [ argsStr |-> AfterMatch(l.argsStr, m.len),
                                  argNames |-> Append(l.argNames, m.name),
                                  tryCount |-> l.tryCount + 1 ]
                           ELSE [l EXCEPT !.tryCount = MAX_TRIES] :
                             m \in {FN_ARG_REGEXES(l.argsStr)} } })

\* the body of getFnArgNames once FN_SIGN has matched
ParseSignature(group, cache) ==
  Only({ IF Len(end.argsStr) > 0 /\ end.tryCount = MAX_TRIES
         THEN [threw |-> TRUE, argNames |-> <<>>, cache |-> cache]
         ELSE [ threw |-> FALSE, argNames |-> end.argNames,
                cache |-> [set |-> TRUE, argNames |-> end.argNames] ] :
           end \in { ArgLoop([ argsStr |-> argsStr, argNames |-> <<>>,
                               tryCount |-> 0 ]) :
                       argsStr \in {WithComma(RemoveComments(Unspaced(
                                      RemoveFirstParen(group))))} } })

\* getFnArgNames(fn) of a function with the text fnText and the cache
\* $__argNames: whether it throws, what it returns, what it caches
getFnArgNames(fnText, cache) ==
  IF cache.set
  THEN [threw |-> FALSE, argNames |-> cache.argNames, cache |-> cache]
  ELSE Only({ IF ~sign.matched
              THEN [threw |-> FALSE, argNames |-> <<>>, cache |-> cache]
              ELSE ParseSignature(sign.group, cache) :
                sign \in {FN_SIGN(Unspaced(fnText))} })

NoCache == [set |-> FALSE, argNames |-> <<>>]

\* the functions handed to traceFn: the text toString() gives, the names
\* of the parameters the function declares and the position of its
\* context parameter (0 when it has none)
TracedFn(text, params) ==
  [ text |-> text, params |-> params,
    ctxAt |-> IF \E i \in 1..Len(params) : IsCtxArgName(params[i])
              THEN CHOOSE i \in 1..Len(params) : IsCtxArgName(params[i])
              ELSE 0 ]

Functions ==
  << \* (a, $ctx) => {}
     TracedFn(<<"(", "a", ",", " ", "$ctx", ")", " ", "=", ">", " ", "{", "}">>,
        <<"a", "$ctx">>),
     \* function f(a, b = 1, $ctx) {}
     TracedFn(<<"function", " ", "f", "(", "a", ",", " ", "b", " ", "=", " ", "1",
          ",", " ", "$ctx", ")", " ", "{", "}">>,
        <<"a", "b", "$ctx">>),
     \* (a /* the input */, _$ctx) => {}
     TracedFn(<<"(", "a", " ", "/*", " ", "the", " ", "input", " ", "*/", ",", " ",
          "_$ctx", ")", " ", "=", ">", " ", "{", "}">>,
        <<"a", "_$ctx">>),
     \* () => {}
     TracedFn(<<"(", ")", " ", "=", ">", " ", "{", "}">>, <<>>),
     \* (a, { b, c }, $ctx) => {}
     TracedFn(<<"(", "a", ",", " ", "{", " ", "b", ",", " ", "c", " ", "}", ",",
          " ", "$ctx", ")", " ", "=", ">", " ", "{", "}">>,
        <<"a", "{b,c}", "$ctx">>),
     \* (...args) => {}
     TracedFn(<<"(", "...", "args", ")", " ", "=", ">", " ", "{", "}">>,
        <<"...args">>),
     \* $ctx => $ctx.logger.info("hi")
     TracedFn(<<"$ctx", " ", "=", ">", " ", "$ctx", ".", "logger", ".", "info",
          "(", "\"", "hi", "\"", ")">>,
        <<"$ctx">>),
     \* ((a, $ctx) => {}).bind(null)
     TracedFn(<<"function", " ", "(", ")", " ", "{", " ", "[", "native", " ",
          "code", "]", " ", "}">>,
        <<"a", "$ctx">>),
     \* (a = [1, 2, 3], b = 1, $ctx) => {}
     TracedFn(<<"(", "a", " ", "=", " ", "[", "1", ",", " ", "2", ",", " ", "3",
          "]", ",", " ", "b", " ", "=", " ", "1", ",", " ", "$ctx", ")", " ",
          "=", ">", " ", "{", "}">>,
        <<"a", "b", "$ctx">>) >>

\* the $ctx of an invocation, as the original function sees it
InvocationCtx == [t |-> "ctx", v |-> 1]

\* the arguments a wrapper is called with
WrapperArgs == { <<>>, <<Num("1")>>, <<Num("1"), Num("2")>> }

\* the cache $__argNames of function f
CacheOf(f) ==
  IF \E i \in 1..Len(wrapped) : wrapped[i].fn = f /\ wrapped[i].cache.set
  THEN wrapped[CHOOSE i \in 1..Len(wrapped) :
                 wrapped[i].fn = f /\ wrapped[i].cache.set].cache
  ELSE NoCache

InitWrap ==
  /\ HashIdle
  /\ ProcessAtLoad
  /\ TraceIdle
  /\ DataIdle /\ LoggerIdle /\ AdapterIdle
  /\ KafkaIdle /\ NetIdle
  /\ wrapped = <<>>

\* w = traceFn("f", fn)
TraceFnWrap ==
  /\ Len(wrapped) < MaxWrapped
  /\ \E f \in 1..Len(Functions) :
       \E r \in {getFnArgNames(Functions[f].text, CacheOf(f))} :
         wrapped' = Append(wrapped,
                      [ fn |-> f, threw |-> r.threw, argNames |-> r.argNames,
                        cache |-> r.cache, invoked |-> FALSE,
                        args |-> <<>>, fnArgs |-> <<>> ])
  /\ UNCHANGED pvars
  /\ UNCHANGED hvars
  /\ UNCHANGED tvars
  /\ UNCHANGED dvars
  /\ UNCHANGED lvars
  /\ UNCHANGED svars
  /\ UNCHANGED kvars
  /\ UNCHANGED nvars

\* w(...args): what the original function is called with
WrapperInvoke ==
  /\ \E i \in 1..Len(wrapped), args \in WrapperArgs :
       /\ ~wrapped[i].threw
       /\ ~wrapped[i].invoked
       /\ wrapped' = [wrapped EXCEPT
            ![i].invoked = TRUE, ![i].args = args,
            ![i].fnArgs = InjectArgs(wrapped[i].argNames, args,
                                     InvocationCtx, AS_ARG)]
  /\ UNCHANGED pvars
  /\ UNCHANGED hvars
  /\ UNCHANGED tvars
  /\ UNCHANGED dvars
  /\ UNCHANGED lvars
  /\ UNCHANGED svars
  /\ UNCHANGED kvars
  /\ UNCHANGED nvars

NextWrap == TraceFnWrap \/ WrapperInvoke

SpecWrap == InitWrap /\ [][NextWrap]_vars

\* the names getFnArgNames found are those of the parameters the function
\* declares, as many and with the context parameter where it is
Resolved(w) ==
  /\ Len(w.argNames) = Len(Functions[w.fn].params)
  /\ \A i \in 1..Len(w.argNames) :
       IsCtxArgName(w.argNames[i]) <=> i = Functions[w.fn].ctxAt

\* the original function got the context as its context parameter
CtxInPlace(w) ==
  Functions[w.fn].ctxAt # 0 =>
    /\ Functions[w.fn].ctxAt <= Len(w.fnArgs)
    /\ w.fnArgs[Functions[w.fn].ctxAt] = InvocationCtx

\* C26: wrapping a function whose parameter names cannot be resolved
\* fails at wrap time: a wrapper that was returned has the parameters of
\* its function resolved, and no invocation of it leaves the context out
\* or puts it at a wrong position.
C26_UnresolvedFailsAtWrap ==
  \A i \in 1..Len(wrapped) :
    ~wrapped[i].threw =>
      /\ Resolved(wrapped[i])
      /\ wrapped[i].invoked => CtxInPlace(wrapped[i])

\* the signature is read once per function: a second wrap of a function
\* whose names were found returns the names the first one cached
C26_ResolvedOnce ==
  \A i \in 1..Len(wrapped), j \in 1..Len(wrapped) :
    (i < j /\ wrapped[i].fn = wrapped[j].fn /\ wrapped[i].cache.set)
      => wrapped[j].argNames = wrapped[i].argNames

\* wherever the wrapper got the names right, the context is in place
C26_ResolvedInjectsInPlace ==
  \A i \in 1..Len(wrapped) :
    (~wrapped[i].threw /\ Resolved(wrapped[i]) /\ wrapped[i].invoked)
      => CtxInPlace(wrapped[i])



(***************************************************************************)
(* KafkaClient.  A topic, an event name, a message type and a listener     *)
(* type are strings that the client cuts at ",", ":", "___" and "-": the   *)
(* text of such a string is the sequence of its parts and separators.      *)
(***************************************************************************)
\* most registrations of a callback
MaxListeners == 2

\* most messages the consumer hands over
MaxMessages == 2

\* s.split(sep): the parts, in order
RECURSIVE Split(_, _)
Split(s, sep) ==
  Only({ IF i = 0 THEN <<s>>
         ELSE <<SubSeq(s, 1, i - 1)>> \o Split(Drop(s, i), sep) :
           i \in {IndexFrom(s, sep, 1)} })

TypeError == ErrorObj("TypeError")

\* KafkaClient.msgTypeDecode(type): split never returns an empty array
msgTypeDecode(type) ==
  Only({ [ topicName |-> Str(parts[1]),
           evtName |-> IF Len(parts) > 1 THEN Str(parts[2]) ELSE Null ] :
           parts \in {Split(type, ":")} })

\* topicName.replace(new RegExp(`^${namespace}-`), "")
stripNamespace(namespace, topicName) ==
  IF Len(topicName) >= 2 /\ topicName[1] = namespace /\ topicName[2] = "-"
  THEN Drop(topicName, 2) ELSE topicName

\* _encodeTopicName(name)
encodeTopicName(k, name) ==
  Only({ IF k.namespace.t = "string" /\ k.namespace.v # ""
         THEN <<k.namespace.v, "-">> \o topic ELSE topic :
           topic \in { IF k.env.t = "string" /\ k.env.v # ""
                       THEN name \o <<"___", k.env.v>> ELSE name } })

\* _decodeTopicName(name)
decodeTopicName(name) ==
  Only({ [ env |-> IF Len(parts) = 2 THEN Str(parts[2]) ELSE Null,
           topic |-> Str(parts[1]) ] :
           parts \in {Split(name, "___")} })

\* convertFromTypedObj(body), for the bodies of the model: arrays, plain
\* objects, the typed objects "Date" and "unknown", primitives
RECURSIVE convertFromTypedObj(_)
convertFromTypedObj(body) ==
  IF body.t = "array"
  THEN Arr([i \in 1..Len(body.v) |-> convertFromTypedObj(body.v[i])])
  ELSE IF body.t = "object"
  THEN IF Get(body, "__nsbKakfaType") = Str("Date")
       THEN [t |-> "date", v |-> Get(body, "value")]
       ELSE IF Get(body, "__nsbKakfaType") = Str("unknown")
       THEN Get(body, "value")
       ELSE Obj([key \in DOMAIN body.v |-> convertFromTypedObj(body.v[key])])
  ELSE body

\* the test of the forEach over the listener types
listenerMatches(typeWithListener, msg) ==
  \E target \in {msgTypeDecode(typeWithListener)} :
    \/ typeWithListener = <<"*">>
    \/ Get(msg, "topic") = target.topicName /\ target.evtName = Str(<<"*">>)
    \/ Get(msg, "type") = Str(typeWithListener)

\* the calls callback.fn(msg) of the two forEach, in order
RECURSIVE callbackCalls(_, _)
callbackCalls(callbacksMap, msg) ==
  IF callbacksMap = <<>> THEN <<>>
  ELSE (IF listenerMatches(Head(callbacksMap).type, msg)
        THEN [i \in 1..Len(Head(callbacksMap).fns) |->
                [ listener |-> Head(callbacksMap).type,
                  fn |-> Head(callbacksMap).fns[i], msg |-> msg ]]
        ELSE <<>>)
       \o callbackCalls(Tail(callbacksMap), msg)

\* the message once it is fulfilled with body, evtName, topic and env
fulfilled(k, consumerMsg, msg) ==
  Only({ Obj([key \in DOMAIN msg.v \cup {"body", "evtName", "topic", "env"} |->
                CASE key = "body" -> convertFromTypedObj(Get(msg, "body"))
                  [] key = "evtName" -> decodedType.evtName
                  [] key = "topic" ->
                       IF k.namespace.t = "string" /\ k.namespace.v # ""
                       THEN Str(stripNamespace(k.namespace.v,
                                               decodedType.topicName.v))
                       ELSE decodedType.topicName
                  [] key = "env" -> decodeTopicName(consumerMsg.topic).env
                  [] OTHER -> msg.v[key]]) :
           decodedType \in {msgTypeDecode(Get(msg, "type").v)} })

\* _handleConsumerMessage(consumerMsg): the outcome and the calls of the
\* callbacks.  A text that does not parse is logged and dropped; msg.body
\* of null, a property set on a primitive and split of a type that is no
\* string are TypeErrors.
handleConsumerMessage(k, consumerMsg) ==
  Only({ IF parsed.kind = "throw"
         THEN [outcome |-> Return(Undefined), calls |-> <<>>]
         ELSE IF parsed.val.t # "object" \/ Get(parsed.val, "type").t # "string"
         THEN [outcome |-> Throw(TypeError), calls |-> <<>>]
         ELSE [ outcome |-> Return(Undefined),
                calls |-> callbackCalls(k.callbacksMap,
                            fulfilled(k, consumerMsg, parsed.val)) ] :
           parsed \in {JsonParse(consumerMsg.value)} })

\* on(type, callback): the callback is pushed on the array of its type
kafkaOn(callbacksMap, type, callback) ==
  IF \E i \in 1..Len(callbacksMap) : callbacksMap[i].type = type
  THEN [i \in 1..Len(callbacksMap) |->
          IF callbacksMap[i].type = type
          THEN [callbacksMap[i] EXCEPT !.fns = Append(@, callback)]
          ELSE callbacksMap[i]]
  ELSE Append(callbacksMap, [type |-> type, fns |-> <<callback>>])

\* the callbacks registered, over all types
RECURSIVE Registered(_)
Registered(callbacksMap) ==
  IF callbacksMap = <<>> THEN 0
  ELSE Len(Head(callbacksMap).fns) + Registered(Tail(callbacksMap))

\* the type of a message of topic, with or without event name
TypeOf(topic, evt) == IF evt = "" THEN topic ELSE topic \o <<":", evt>>

\* the client, as the constructor leaves it
NewKafkaClient(namespace, env, connected) ==
  [ on |-> TRUE, namespace |-> namespace, env |-> env,
    connected |-> connected, callbacksMap |-> <<>>, handled |-> <<>>,
    deliveries |-> <<>>, sendQueue |-> <<>>, sent |-> <<>>, sends |-> <<>> ]

KafkaTopics == { <<"t1">>, <<"a", "___", "b">> }

\* the types a callback is registered under
ListenerTypes ==
  { <<"*">>, <<"t1", ":", "*">>, <<"t1", ":", "e">>,
    <<"a", "___", "b", ":", "*">> }

KafkaCallbacks == {"cb1", "cb2"}

\* what a producer can have written on a topic: a message of the topic
\* with or without event name and with some body, a JSON value that is
\* no message, a text that is no JSON
WireInputs ==
  { [ kind |-> "message", topic |-> topic, evt |-> evt,
      body |-> Obj("a" :> Num("1")) ] :
      topic \in KafkaTopics, evt \in {"", "e"} }
    \cup { [ kind |-> "message", topic |-> <<"t1">>, evt |-> "e",
             body |-> Obj("a" :> Obj(("__nsbKakfaType" :> Str("unknown"))
                                       @@ ("value" :> Num("1")))) ] }
    \cup { [kind |-> kind, topic |-> <<"t1">>, evt |-> "", body |-> Null] :
             kind \in {"null", "untyped", "broken"} }

\* the value of the consumer message
WireValue(in) ==
  CASE in.kind = "message" ->
         JsonStringify(Obj(("type" :> Str(TypeOf(in.topic, in.evt)))
                             @@ ("body" :> in.body)
                             @@ ("timestamp" :> Num("1"))))
    [] in.kind = "null" -> JsonStringify(Null)
    [] in.kind = "untyped" -> JsonStringify(Obj("body" :> in.body))
    [] OTHER -> Text(<<Tok("punct", "{")>>)

InitRecv ==
  /\ HashIdle
  /\ ProcessAtLoad
  /\ TraceIdle
  /\ DataIdle /\ LoggerIdle /\ AdapterIdle
  /\ WrapIdle /\ NetIdle
  /\ \E namespace \in {Undefined, Str("ns")}, env \in {Undefined, Str("dev")} :
       kafka = NewKafkaClient(namespace, env, TRUE)

\* client.on(type, callback)
KafkaOn ==
  /\ Len(kafka.handled) = 0
  /\ Registered(kafka.callbacksMap) < MaxListeners
  /\ \E type \in ListenerTypes, callback \in KafkaCallbacks :
       /\ \A i \in 1..Len(kafka.callbacksMap) :
            kafka.callbacksMap[i].type = type =>
              \A j \in 1..Len(kafka.callbacksMap[i].fns) :
                kafka.callbacksMap[i].fns[j] # callback
       /\ kafka' = [kafka EXCEPT
            !.callbacksMap = kafkaOn(@, type, callback)]
  /\ UNCHANGED pvars
  /\ UNCHANGED hvars
  /\ UNCHANGED tvars
  /\ UNCHANGED dvars
  /\ UNCHANGED lvars
  /\ UNCHANGED svars
  /\ UNCHANGED wvars
  /\ UNCHANGED nvars

\* the consumer hands over a message of a topic the client subscribed to
ConsumerMessage ==
  /\ Len(kafka.handled) < MaxMessages
  /\ \E in \in WireInputs :
       \E consumerMsg \in {[ topic |-> encodeTopicName(kafka, in.topic),
                             value |-> WireValue(in) ]} :
         \E r \in {handleConsumerMessage(kafka, consumerMsg)} :
           kafka' = [kafka EXCEPT
             !.handled = Append(@, [ in |-> in, consumerMsg |-> consumerMsg,
                                     outcome |-> r.outcome ]),
             !.deliveries = @ \o
                [i \in 1..Len(r.calls) |->
                   [ no |-> Len(kafka.handled) + 1,
                     listener |-> r.calls[i].listener,
                     fn |-> r.calls[i].fn, msg |-> r.calls[i].msg ]]]
  /\ UNCHANGED pvars
  /\ UNCHANGED hvars
  /\ UNCHANGED tvars
  /\ UNCHANGED dvars
  /\ UNCHANGED lvars
  /\ UNCHANGED svars
  /\ UNCHANGED wvars
  /\ UNCHANGED nvars

NextRecv == KafkaOn \/ ConsumerMessage

SpecRecv == InitRecv /\ [][NextRecv]_vars



\* the deliveries of message no to callback fn as registered under type
DeliveriesOf(no, type, fn) ==
  { d \in 1..Len(kafka.deliveries) :
      /\ kafka.deliveries[d].no = no
      /\ kafka.deliveries[d].listener = type
      /\ kafka.deliveries[d].fn = fn }

\* the listener type is "*", or "<topic>:*" with the topic of the message,
\* or the type of the message; a JSON value that is no message has neither
\* topic nor type
ShouldReach(type, in) ==
  \/ type = <<"*">>
  \/ in.kind = "message" /\ type = in.topic \o <<":", "*">>
  \/ in.kind = "message" /\ type = TypeOf(in.topic, in.evt)

\* what follows the last "___" of a consumer topic, null when there is none
EnvSuffix(topic) ==
  IF \A i \in 1..Len(topic) : topic[i] # "___" THEN Null
  ELSE Str(Drop(topic, CHOOSE i \in 1..Len(topic) :
                         /\ topic[i] = "___"
                         /\ \A j \in (i + 1)..Len(topic) : topic[j] # "___"))

\* the message a callback got has the topic and event name of its type and
\* the env of the consumer topic
DecodedAsSent(d) ==
  \E h \in {kafka.handled[kafka.deliveries[d].no]} :
    /\ Get(kafka.deliveries[d].msg, "topic") = Str(h.in.topic)
    /\ Get(kafka.deliveries[d].msg, "evtName")
         = (IF h.in.evt = "" THEN Null ELSE Str(<<h.in.evt>>))
    /\ Get(kafka.deliveries[d].msg, "env") = EnvSuffix(h.consumerMsg.topic)

\* message no reached the callbacks it should have reached, once each, and
\* what they got was decoded as sent
DeliveredRight(no) ==
  /\ \A i \in 1..Len(kafka.callbacksMap) :
       \A j \in 1..Len(kafka.callbacksMap[i].fns) :
         Cardinality(DeliveriesOf(no, kafka.callbacksMap[i].type,
                                  kafka.callbacksMap[i].fns[j]))
           = IF ShouldReach(kafka.callbacksMap[i].type, kafka.handled[no].in)
             THEN 1 ELSE 0
  /\ \A d \in 1..Len(kafka.deliveries) :
       kafka.deliveries[d].no = no => DecodedAsSent(d)

\* the callbacks are called in the order of arrival of the messages
InArrivalOrder ==
  \A d \in 1..Len(kafka.deliveries), e \in 1..Len(kafka.deliveries) :
    d < e => kafka.deliveries[d].no <= kafka.deliveries[e].no

\* the value of the consumer message is a JSON text
ValidJson(no) == kafka.handled[no].in.kind # "broken"

\* C27: every consumer message with a valid JSON value reaches exactly the
\* callbacks registered under "*", under "<topic>:*" for its topic and
\* under its type, each once, in arrival order, with topic and evtName
\* decoded from its type and env from the consumer topic.
C27_ListenersReached ==
  kafka.on =>
    /\ InArrivalOrder
    /\ \A no \in 1..Len(kafka.handled) : ValidJson(no) => DeliveredRight(no)

\* the value is a message (an object with a type) and its consumer topic
\* has one "___" at most
WellFormed(no) ==
  /\ kafka.handled[no].in.kind = "message"
  /\ Len(Split(kafka.handled[no].consumerMsg.topic, "___")) <= 2

\* the same, for the well formed messages
C27_WellFormedReached ==
  kafka.on =>
    /\ InArrivalOrder
    /\ \A no \in 1..Len(kafka.handled) : WellFormed(no) => DeliveredRight(no)

\* a text that is no JSON is dropped: no callback is called, nothing is
\* thrown
C27_BrokenDropped ==
  kafka.on =>
    \A no \in 1..Len(kafka.handled) :
      ~ValidJson(no) =>
        /\ kafka.handled[no].outcome = Return(Undefined)
        /\ \A d \in 1..Len(kafka.deliveries) : kafka.deliveries[d].no # no



(***************************************************************************)
(* KafkaClient.send.  The client has a producer of its own (no node        *)
(* emitter) and does not create topics.                                    *)
(***************************************************************************)
\* most calls of send
MaxSends == 2

\* convertToTypedObj(body), for the bodies of the model: arrays, dates,
\* plain objects, primitives, undefined
RECURSIVE convertToTypedObj(_)
convertToTypedObj(body) ==
  CASE body.t = "array" ->
         Arr([i \in 1..Len(body.v) |-> convertToTypedObj(body.v[i])])
    [] body.t = "date" ->
         Obj(("__nsbKakfaType" :> Str("Date")) @@ ("value" :> body.v))
    [] body.t = "object" ->
         Obj([key \in DOMAIN body.v |-> convertToTypedObj(body.v[key])])
    [] body.t \in {"number", "string", "boolean", "null"} -> body
    [] OTHER ->
         Obj(("__nsbKakfaType" :> Str("unknown")) @@ ("value" :> body))

\* topics and evtName as send cuts them out of type
sendTopics(type) ==
  Only({ [ topics |-> SubSeq(cut[1], 1, Len(cut[1]) - 1) \o <<cut[2][1]>>,
           evtName |-> IF Len(cut[2]) > 1 THEN cut[2][2] ELSE <<>> ] :
           cut \in { <<parts, Split(parts[Len(parts)], ":")>> :
                       parts \in {Split(type, ",")} } })

\* a type that leaves the event name out
msgTypeBare(topic, evtName) == topic

\* msgType = evtName ? `${topic}:${evtName}` : topic
msgType(topic, evtName) ==
  IF evtName # <<>> THEN topic \o <<":">> \o evtName ELSE topic

\* sendArgs of the i-th topic
sendArgs(k, cut, msg, i) ==
  [ key |-> Str(msgType(cut.topics[i], cut.evtName)),
    message |->
      Obj(("body" :> convertToTypedObj(Get(msg, "body")))
            @@ ("timestamp" :> Num("1"))
            @@ ("type" :> Str(msgType(cut.topics[i], cut.evtName)))
            @@ msg.v),
    topic |-> encodeTopicName(k, cut.topics[i]) ]

\* send(type, msg): the client after the call.  A producer that is not
\* connected gets the first sendArgs queued and send returns.
kafkaSend(k, type, msg) ==
  Only({ IF ~k.connected
         THEN [k EXCEPT !.sendQueue = Append(@, sendArgs(k, cut, msg, 1))]
         ELSE [k EXCEPT !.sent = @ \o
                 [i \in 1..Len(cut.topics) |-> sendArgs(k, cut, msg, i)]] :
           cut \in {sendTopics(type)} })

\* the lists of topics a caller sends to
SendTopicLists ==
  { <<<<"t1">>>>, <<<<"t1">>, <<"t2">>>>, <<<<"a", "___", "b">>, <<"t1">>>> }

\* "t1,...,tn:evt", or "t1,...,tn" without event name
RECURSIVE SendType(_, _)
SendType(topics, evt) ==
  IF Len(topics) = 1 THEN TypeOf(topics[1], evt)
  ELSE topics[1] \o <<",">> \o SendType(Tail(topics), evt)

SendMessages ==
  { Obj(("$traceHash" :> Str("h1")) @@ ("body" :> Obj("a" :> Num("1")))),
    Obj("body" :> [t |-> "date", v |-> Str("d1")]) }

InitSend ==
  /\ HashIdle
  /\ ProcessAtLoad
  /\ TraceIdle
  /\ DataIdle /\ LoggerIdle /\ AdapterIdle
  /\ WrapIdle /\ NetIdle
  /\ \E namespace \in {Undefined, Str("ns")}, env \in {Undefined, Str("dev")},
        connected \in BOOLEAN :
       kafka = NewKafkaClient(namespace, env, connected)

\* client.send(type, msg)
KafkaSend ==
  /\ Len(kafka.sends) < MaxSends
  /\ \E topics \in SendTopicLists, evt \in {"", "e"}, msg \in SendMessages :
       \E k \in {kafkaSend(kafka, SendType(topics, evt), msg)} :
         kafka' = [k EXCEPT !.sends = Append(@,
                     [ topics |-> topics, evt |-> evt, msg |-> msg,
                       connected |-> kafka.connected,
                       first |-> Len(kafka.sent),
                       calls |-> Len(k.sent) - Len(kafka.sent) ])]
  /\ UNCHANGED pvars
  /\ UNCHANGED hvars
  /\ UNCHANGED tvars
  /\ UNCHANGED dvars
  /\ UNCHANGED lvars
  /\ UNCHANGED svars
  /\ UNCHANGED wvars
  /\ UNCHANGED nvars

\* the producer connects: the queue is flushed
ProducerConnected ==
  /\ ~kafka.connected
  /\ kafka' = [kafka EXCEPT !.connected = TRUE,
                            !.sent = @ \o kafka.sendQueue,
                            !.sendQueue = <<>>]
  /\ UNCHANGED pvars
  /\ UNCHANGED hvars
  /\ UNCHANGED tvars
  /\ UNCHANGED dvars
  /\ UNCHANGED lvars
  /\ UNCHANGED svars
  /\ UNCHANGED wvars
  /\ UNCHANGED nvars

NextSend == KafkaSend \/ ProducerConnected

SpecSend == InitSend /\ [][NextSend]_vars

\* the topic as the broker knows it: the namespace and "-" in front when
\* the client has a namespace, "___" and the env behind when it has an env
OnBroker(topic) ==
  (IF kafka.namespace = Undefined THEN <<>> ELSE <<kafka.namespace.v, "-">>)
    \o topic
    \o (IF kafka.env = Undefined THEN <<>> ELSE <<"___", kafka.env.v>>)

\* the i-th call of producer.send that send s made is the one for its
\* i-th topic
CallAsAsked(s, i) ==
  \E call \in {kafka.sent[s.first + i]} :
    /\ call.key = Str(TypeOf(s.topics[i], s.evt))
    /\ Get(call.message, "type") = Str(TypeOf(s.topics[i], s.evt))
    /\ Get(call.message, "$traceHash") = Get(s.msg, "$traceHash")
    /\ call.topic = OnBroker(s.topics[i])

StackFrames ==
  CtxFrames \cup { <<Str("B"), Str("h"), Str("other")>> }

CtxNewFrame == CtxNewOf(StackFrames)

NextStack == CtxNewFrame

SpecStack == InitCtx /\ [][NextStack]_vars

\* the frames from the oldest ancestor to context p itself, the shared
\* context contributing none
RECURSIVE FramesBelowShared(_, _, _)
FramesBelowShared(s, heap, p) ==
  IF ~Truthy(p) THEN <<>>
  ELSE IF isShared(s, p.v) THEN <<>>
  ELSE FramesBelowShared(s, heap, heap[p.v].parent) \o <<FrameOf(heap[p.v])>>

SameSegment(f, g) ==
  /\ Get(f, "className") = Get(g, "className")
  /\ Get(f, "serviceName") = Get(g, "serviceName")

\* how many frames at the head of frames make one segment
RECURSIVE SegmentLen(_)
SegmentLen(frames) ==
  IF Len(frames) = 1 \/ ~SameSegment(frames[1], frames[2]) THEN 1
  ELSE 1 + SegmentLen(Tail(frames))

\* one segment: "[service]" when wanted, "Class:" once, the names with "."
SegmentText(seg, bracket) ==
  (IF bracket THEN "[" \o Get(seg[1], "serviceName").v \o "]" ELSE "")
    \o (IF Truthy(Get(seg[1], "className"))
        THEN Get(seg[1], "className").v \o ":" ELSE "")
    \o Join([k \in 1..Len(seg) |-> ElemText(Get(seg[k], "fnName"))], ".")

\* the segments of a chain.  A segment of another service than the
\* ambient one gets the bracket; when afterChange is set, only if the
\* segment before it was of yet another service
RECURSIVE SegmentTexts(_, _, _, _)
SegmentTexts(frames, ambient, prev, afterChange) ==
  IF frames = <<>> THEN <<>>
  ELSE
    Only({ <<SegmentText(seg, /\ Truthy(Get(seg[1], "serviceName"))
                              /\ Get(seg[1], "serviceName") # ambient
                              /\ afterChange =>
                                   Get(seg[1], "serviceName") # prev)>>
             \o SegmentTexts(Drop(frames, Len(seg)), ambient,
                             Get(seg[1], "serviceName"), afterChange) :
             seg \in {SubSeq(frames, 1, SegmentLen(frames))} })

\* C29: callStackName is the rendering of the frames from the oldest
\* ancestor to the context itself, the shared context contributing none:
\* one segment per run of frames of one class and service, "[service]" in
\* front of a segment of another service than the ambient one, "Class:"
\* once, names joined by ".", segments by "->"; "" for the shared context.
C29_CallStackNameRendered ==
  \A i \in 1..Len(ctxs) :
    callStackName(st, ctxs, i)
      = Join(SegmentTexts(FramesBelowShared(st, ctxs, CtxRef(i)),
                          st.serviceName, st.serviceName, FALSE), "->")

\* the shared context has the empty name
C29_SharedIsEmpty ==
  \A i \in 1..Len(ctxs) : isShared(st, i) => callStackName(st, ctxs, i) = ""

\* the contexts that do not descend from the shared context have that
\* rendering, the bracket being written only where the service changes
C29_RenderedOffShared ==
  \A i \in 1..Len(ctxs) :
    ~RootedAtShared(st, ctxs, i) =>
      callStackName(st, ctxs, i)
        = Join(SegmentTexts(FramesBelowShared(st, ctxs, CtxRef(i)),
                            st.serviceName, st.serviceName, TRUE), "->")

(***************************************************************************)
(* The parent the wrapper resolves for the context of a call.              *)
(***************************************************************************)
\* the contexts alive before call c: the shared one and the caller's
HeapBefore == SubSeq(ctxs, 1, 2)

\* the argument is one the scan stops at: a plain object exposing $ctx or
\* $traceHash, a context, or a string that starts with the prefix
Exposes(arg) ==
  \/ /\ arg.t = "object"
     /\ Truthy(Get(arg, "$ctx")) \/ Truthy(Get(arg, "$traceHash"))
  \/ arg.t = "ctx"
  \/ arg.t = "hash" /\ StartsWithPrefix(arg)

\* the position of the leftmost such argument, 0 when there is none
FirstExposing(args) ==
  IF \E i \in 1..Len(args) : Exposes(args[i])
  THEN CHOOSE i \in 1..Len(args) :
         Exposes(args[i]) /\ \A j \in 1..(i - 1) : ~Exposes(args[j])
  ELSE 0

\* the live context call c is given: config.parent, or else the one the
\* leftmost exposing argument carries
LiveGiven(c) ==
  LET k == calls[c]
      i == FirstExposing(k.args)
  IN  IF Truthy(Get(k.wrap.config, "parent"))
      THEN Get(k.wrap.config, "parent")
      ELSE IF i = 0 THEN Undefined
      ELSE IF k.args[i].t = "object" THEN Get(k.args[i], "$ctx")
      ELSE IF k.args[i].t = "ctx" THEN k.args[i]
      ELSE Undefined

\* the hash the leftmost exposing argument carries
HashGiven(c) ==
  LET k == calls[c]
      i == FirstExposing(k.args)
  IN  IF Truthy(Get(k.wrap.config, "parent")) \/ i = 0 THEN Undefined
      ELSE IF k.args[i].t = "object" THEN Get(k.args[i], "$traceHash")
      ELSE IF k.args[i].t = "hash" THEN k.args[i]
      ELSE Undefined

\* what the wrap's traceHashArgPath selects among the arguments of call c:
\* given is whether it selects a string or a function, hash the string or
\* what the function returns
HashAtPath(c) ==
  LET k == calls[c]
      path == Get(k.wrap.config, "traceHashArgPath")
      arg == IF Truthy(path) THEN LodashGet(k.args, path) ELSE Undefined
  IN  [ given |-> arg.t \in {"function", "string", "hash"},
        hash |-> IF arg.t = "function" THEN arg.v ELSE arg ]

\* the hash call c is given once traceHashArgPath has been looked at
HashGivenOrAtPath(c) ==
  IF HashAtPath(c).given THEN HashAtPath(c).hash ELSE HashGiven(c)

\* call c made its context right after the contexts alive before it, with
\* this parent
MadeUnder(c, parent) ==
  /\ ContextMade(c)
  /\ calls[c].ctx = Len(HeapBefore) + 1
  /\ ctxs[calls[c].ctx].parent = parent

\* call c decoded the hash with fromHash: the context it made has the
\* decoded one for parent, or the call failed as fromHash did before any
\* context was made
MadeFromHash(c, hash) ==
  \E decoded \in {fromHash(st, HeapBefore, hash)} :
    IF decoded.kind = "throw"
    THEN ~ContextMade(c) /\ calls[c].outcome = decoded
    ELSE /\ ContextMade(c)
         /\ calls[c].ctx = Len(HeapBefore) + 2
         /\ ctxs[calls[c].ctx - 1] = decoded.val
         /\ ctxs[calls[c].ctx].parent = CtxRef(calls[c].ctx - 1)

\* call c resolved its parent from the live context it is given, and from
\* this hash only when it is given no live context
ResolvedFrom(c, hash) ==
  IF Truthy(LiveGiven(c)) THEN MadeUnder(c, LiveGiven(c))
  ELSE IF Truthy(hash) THEN MadeFromHash(c, hash)
  ELSE MadeUnder(c, Undefined)

\* C30: the parent of the new context is config.parent when configured,
\* otherwise what the leftmost argument that is a plain object exposing
\* $ctx or $traceHash, a context, or a prefixed string carries, later
\* arguments not being inspected; a live context is preferred over a hash,
\* and a hash is decoded with fromHash only when no live context was found
C30_ParentFromFirstArgument ==
  \A c \in CallIds : Began(c) => ResolvedFrom(c, HashGiven(c))

\* C30, with traceHashArgPath: as above, except that when the wrap is
\* configured with traceHashArgPath and that path selects a string or a
\* function among the arguments, the string, or what the function returns,
\* replaces the hash found by the scan
C30_ParentResolved ==
  \A c \in CallIds : Began(c) => ResolvedFrom(c, HashGivenOrAtPath(c))

\* a call whose first argument is a hash and whose second is a live
\* context made its context under the one decoded from the hash
C30_Witness ==
  \E c \in CallIds :
    /\ ContextMade(c)
    /\ Len(calls[c].args) = 2
    /\ calls[c].args[1].t = "hash"
    /\ calls[c].args[2].t = "ctx"
    /\ ~HashAtPath(c).given
    /\ calls[c].ctx = Len(HeapBefore) + 2
    /\ ctxs[calls[c].ctx].parent = CtxRef(Len(HeapBefore) + 1)

(***************************************************************************)
(* What the original function receives in positional injection mode.       *)
(***************************************************************************)
\* call c injects by position and the original function was called
Positional(c) ==
  /\ Began(c)
  /\ calls[c].invoked > 0
  /\ Coalesce(Get(calls[c].wrap.config, "injectMode"), st.injectMode)
       # IN_FIRST_ARG_OBJECT

\* position i of what the original function received holds the context of
\* the call when the parameter there is named $ctx, the caller's argument
\* when there is one, and undefined otherwise
PositionKept(c, i) ==
  LET k == calls[c] IN
  /\ i <= Len(k.fnArgs)
  /\ k.fnArgs[i] =
       IF i <= Len(k.wrap.argNames) /\ IsCtxArgName(k.wrap.argNames[i])
       THEN CtxRef(k.ctx)
       ELSE IF i <= Len(k.args) THEN k.args[i]
       ELSE Undefined

\* C31: in positional injection mode the callee receives the new context at
\* the position of its parameter named $ctx or _$ctx, every other argument
\* the caller passed at the same position with the same value, for every
\* position of the caller's argument list, and undefined for the declared
\* parameters the caller did not supply
C31_ArgumentsPreserved ==
  \A c \in CallIds :
    Positional(c) =>
      \A i \in 1..Len(calls[c].args) \cup 1..Len(calls[c].wrap.argNames) :
        PositionKept(c, i)

\* the same for the positions of the declared parameters only
C31_DeclaredPositionsPreserved ==
  \A c \in CallIds :
    Positional(c) =>
      /\ Len(calls[c].fnArgs) = Len(calls[c].wrap.argNames)
      /\ \A i \in 1..Len(calls[c].wrap.argNames) : PositionKept(c, i)

(***************************************************************************)
(* When traceStart and traceFinish call the trace driver.  A call of       *)
(* spanStart adds a span to spans; a call on a span changes its record.    *)
(***************************************************************************)
\* a trace driver is configured, and context c has autoTracing true and a
\* fnName
ShouldTrace(c) ==
  /\ Truthy(st.traceDriver)
  /\ c.autoTracing = Bool(TRUE)
  /\ c.fnName.t = "string" /\ c.fnName.v # ""

\* a step that makes a context and calls traceStart on it asks the driver
\* for a span, kept as the span of the context, exactly when it should
StartedWhenConfigured ==
  Len(ctxs') = Len(ctxs) + 1 =>
    IF ShouldTrace(ctxs'[Len(ctxs')])
    THEN /\ Len(spans') = Len(spans) + 1
         /\ ctxs'[Len(ctxs')].span = SpanRef(Len(spans'))
         /\ spans'[Len(spans')].opName = ctxs'[Len(ctxs')].fnName
    ELSE /\ spans' = spans
         /\ ctxs'[Len(ctxs')].span = Undefined

\* traceFinish on any context that has no span, with any status, leaves
\* the spans, the contexts and the count of driver calls as they are
FinishWithoutSpanCallsNothing ==
  \A i \in 1..Len(ctxs), status \in FinishStatuses :
    ~Truthy(ctxs[i].span) =>
      \E m0 \in {[ heap |-> ctxs, spans |-> spans, dlog |-> dlog,
                   hist |-> <<>>, n |-> 0, exc |-> NoOutcome ]} :
        traceFinish(m0, {}, i, status) = m0

\* C32: traceStart asks the trace driver for a span iff a trace driver is
\* configured, the context's autoTracing is true and its fnName is set;
\* otherwise the driver is not called and the span of the context stays
\* unset; traceFinish on a context without a span calls nothing on the
\* driver
C32_TraceStartIffConfigured ==
  [][StartedWhenConfigured]_vars /\ []FinishWithoutSpanCallsNothing

\* a driver is configured, one context was started with a span, and
\* another, without fnName, was started and has none
C32_Witness ==
  /\ Truthy(st.traceDriver)
  /\ \E i, j \in 2..Len(ctxs) :
       /\ Truthy(ctxs[i].span)
       /\ ctxs[j].fnName = Undefined
       /\ ctxs[j].autoTracing = Bool(TRUE)
       /\ ~Truthy(ctxs[j].span)

(***************************************************************************)
(* Span parenting across a hash: a context is handed over as a hash, and   *)
(* the receiver rebuilds it and starts a child of the rebuilt context.     *)
(***************************************************************************)
\* most hand-overs
MaxRelayed == 3

Relayed == Cardinality({i \in 1..Len(origin) : origin[i] # 0})

\* R = TraceContext.fromHash(P.toHash());
\* C = new TraceContext({fnName: "h", parent: R}); C.traceStart()
RelayStart ==
  /\ Relayed < MaxRelayed
  /\ \E p \in 1..Len(ctxs) :
       \E r \in {fromHash(st, ctxs, toHash(st, ctxs, p))} :
         /\ r.kind = "return"
         /\ \E heap1 \in {Append(ctxs, r.val)} :
              \E c \in {NewTraceContext(st, heap1,
                          Obj(("fnName" :> Str("h"))
                                @@ ("parent" :> CtxRef(Len(heap1)))))} :
                \E m \in {traceStart(st,
                            [ heap |-> Append(heap1, c), spans |-> spans,
                              dlog |-> dlog, hist |-> <<>>, n |-> 0,
                              exc |-> NoOutcome ], {}, Len(heap1) + 1)} :
                  /\ ctxs' = m.heap
                  /\ spans' = m.spans
                  /\ dlog' = m.dlog
         /\ origin' = origin \o <<p, 0>>
  /\ UNCHANGED <<st, inits, initLog, calls>>
  /\ UNCHANGED hvars
  /\ UNCHANGED dvars
  /\ UNCHANGED lvars
  /\ UNCHANGED svars
  /\ UNCHANGED wvars
  /\ UNCHANGED kvars
  /\ UNCHANGED nvars

\* the sender's context: P = new TraceContext({fnName: "f", autoTracing,
\* parent: shared}); P.traceStart()
RelayOrigin ==
  /\ Len(ctxs) = 1
  /\ \E auto \in {Absent, Bool(FALSE)} :
       \E c \in {NewTraceContext(st, ctxs,
                   Obj(Field("fnName", Str("f")) @@ Field("autoTracing", auto)
                         @@ Field("parent", st.shared)))} :
         \E m \in {traceStart(st,
                     [ heap |-> Append(ctxs, c), spans |-> spans,
                       dlog |-> dlog, hist |-> <<>>, n |-> 0,
                       exc |-> NoOutcome ], {}, Len(ctxs) + 1)} :
           /\ ctxs' = m.heap
           /\ spans' = m.spans
           /\ dlog' = m.dlog
  /\ origin' = Append(origin, 0)
  /\ UNCHANGED <<st, inits, initLog, calls>>
  /\ UNCHANGED hvars
  /\ UNCHANGED dvars
  /\ UNCHANGED lvars
  /\ UNCHANGED svars
  /\ UNCHANGED wvars
  /\ UNCHANGED kvars
  /\ UNCHANGED nvars

NextRelay == RelayOrigin \/ RelayStart

SpecRelay == InitFinish /\ [][NextRelay]_vars

\* the span hash context p hands over: that of its span, none without one
SpanHashOf(p) ==
  IF Truthy(ctxs[p].span) THEN spanToHash(ctxs[p].span) ELSE Undefined

\* the hash of p carries spanHash exactly when p has a span
HashCarriesSpan(p) ==
  \E data \in {hashDecode(toHash(st, ctxs, p))} :
    /\ data.kind = "return"
    /\ Get(data.val, "spanHash") = SpanHashOf(p)
    /\ Truthy(ctxs[p].span) <=> "spanHash" \in DOMAIN data.val.v

\* c is a started child of r, and r was rebuilt from the hash of a context
StartedUnderRebuilt(c, r) ==
  /\ c \in 1..Len(ctxs) /\ r \in 1..Len(ctxs)
  /\ ctxs[c].parent = CtxRef(r)
  /\ origin[r] # 0
  /\ Truthy(ctxs[c].span)

\* C33: if context P has a span, P.toHash() carries spanHash =
\* P.span.toHash(), and traceStart on a child of fromHash(P.toHash()) calls
\* spanStart with parentHash equal to that span hash and no live parent; if
\* P has no span the hash carries no spanHash and the child starts a root
\* span
C33_SpanParentSurvivesHash ==
  /\ \A p \in 1..Len(ctxs) : HashCarriesSpan(p)
  /\ \A c, r \in 1..Len(ctxs) :
       StartedUnderRebuilt(c, r) =>
         /\ ctxs[r].spanHash = SpanHashOf(origin[r])
         /\ spans[ctxs[c].span.v].parent = Undefined
         /\ spans[ctxs[c].span.v].parentHash = SpanHashOf(origin[r])

\* a child was started under the rebuilt copy of a context that has a
\* span, and another under the rebuilt copy of one that has none
C33_Witness ==
  \E c1, r1, c2, r2 \in 1..Len(ctxs) :
    /\ StartedUnderRebuilt(c1, r1) /\ Truthy(ctxs[origin[r1]].span)
    /\ StartedUnderRebuilt(c2, r2) /\ ~Truthy(ctxs[origin[r2]].span)

(***************************************************************************)
(* The send queue: what reaches producer.send of the messages passed to    *)
(* send before the producer was connected.                                 *)
(***************************************************************************)
\* the calls of producer.send the sends ask for, in order: one for each
\* topic of each send
RECURSIVE AskedCalls(_)
AskedCalls(sends) ==
  IF sends = <<>> THEN <<>>
  ELSE [i \in 1..Len(Head(sends).topics) |-> [s |-> Head(sends), i |-> i]]
         \o AskedCalls(Tail(sends))

\* the calls of producer.send made so far are those asked for, each once,
\* in the order asked
SentAsAsked(sends) ==
  \E asked \in {AskedCalls(sends)} :
    /\ Len(kafka.sent) = Len(asked)
    /\ \A j \in 1..Len(asked) :
         /\ kafka.sent[j].key =
              Str(TypeOf(asked[j].s.topics[asked[j].i], asked[j].s.evt))
         /\ kafka.sent[j].topic = OnBroker(asked[j].s.topics[asked[j].i])
         /\ Get(kafka.sent[j].message, "$traceHash")
              = Get(asked[j].s.msg, "$traceHash")

\* a send made before the producer was connected
QueuedSend(s) == ~s.connected

\* C34: every message passed to send while the producer is not yet
\* connected is held in the send queue and handed to producer.send exactly
\* once, in FIFO order, after the producer connects; none is lost or
\* duplicated, and a send to several topics made before the connection
\* produces one producer.send per target topic
C34_QueuedSendsDelivered ==
  (kafka.on /\ kafka.connected) =>
    /\ kafka.sendQueue = <<>>
    /\ SentAsAsked(kafka.sends)

\* the same when every send made before the connection names one topic
C34_QueuedSingleTopicDelivered ==
  ( /\ kafka.on /\ kafka.connected
    /\ \A n \in 1..Len(kafka.sends) :
         QueuedSend(kafka.sends[n]) => Len(kafka.sends[n].topics) = 1 ) =>
    /\ kafka.sendQueue = <<>>
    /\ SentAsAsked(kafka.sends)

\* while the producer is not connected nothing is handed to it, and the
\* queue holds one entry for each send
C34_HeldWhileUnconnected ==
  (kafka.on /\ ~kafka.connected) =>
    /\ kafka.sent = <<>>
    /\ Len(kafka.sendQueue) = Len(kafka.sends)

(***************************************************************************)
(* createTopic.  createdTopicsSet is the static KafkaClient._createdTopics *)
(* Set; admin is the calls of adminClient.createTopic, and creates is the  *)
(* history of the calls of createTopic.                                    *)
(***************************************************************************)
\* most calls of createTopic
MaxCreates == 3

\* createTopic(name) of a client without local emitter, the admin client
\* succeeding or not: the client after the call
createTopic(k, name, adminSucceeds) ==
  IF name \in k.createdTopicsSet
  THEN [k EXCEPT !.creates = Append(@, [name |-> name, did |-> "skipped"])]
  ELSE
    Only({ [k EXCEPT
              !.admin = Append(@, topicEncodedName),
              !.createdTopicsSet =
                 IF adminSucceeds THEN @ \cup {topicEncodedName} ELSE @,
              !.creates = Append(@,
                 [ name |-> name,
                   did |-> IF adminSucceeds THEN "created" ELSE "failed" ])] :
             topicEncodedName \in {encodeTopicName(k, name)} })

InitTopic ==
  /\ HashIdle
  /\ ProcessAtLoad
  /\ TraceIdle
  /\ DataIdle /\ LoggerIdle /\ AdapterIdle
  /\ WrapIdle /\ NetIdle
  /\ \E namespace \in {Undefined, Str("ns")}, env \in {Undefined, Str("dev")} :
       kafka = [ on |-> TRUE, namespace |-> namespace, env |-> env,
                 createdTopicsSet |-> {}, admin |-> <<>>, creates |-> <<>> ]

\* client.createTopic(name)
CreateTopic ==
  /\ Len(kafka.creates) < MaxCreates
  /\ \E name \in KafkaTopics, adminSucceeds \in BOOLEAN :
       kafka' = createTopic(kafka, name, adminSucceeds)
  /\ UNCHANGED pvars
  /\ UNCHANGED hvars
  /\ UNCHANGED tvars
  /\ UNCHANGED dvars
  /\ UNCHANGED lvars
  /\ UNCHANGED svars
  /\ UNCHANGED wvars
  /\ UNCHANGED nvars

NextTopic == CreateTopic

SpecTopic == InitTopic /\ [][NextTopic]_vars

\* no call of createTopic for a name follows one that succeeded for it and
\* reaches the admin client
CreatedOnce ==
  \A i, j \in 1..Len(kafka.creates) :
    ( /\ i < j
      /\ kafka.creates[i].name = kafka.creates[j].name
      /\ kafka.creates[i].did = "created" )
      => kafka.creates[j].did = "skipped"

\* C35: once createTopic(name) has succeeded, every later createTopic(name)
\* in the process returns without calling the admin client's createTopic
\* again, whatever env and namespace the client is configured with
C35_TopicCreatedOnce == kafka.on => CreatedOnce

\* the same for a client that has neither env nor namespace
C35_BareTopicCreatedOnce ==
  (kafka.on /\ kafka.namespace = Undefined /\ kafka.env = Undefined)
    => CreatedOnce

(***************************************************************************)
(* ThriftService.  thrift holds the promise connect returned, the flag     *)
(* _isDisconnected, _connection (an index into conns, 0 for none), the     *)
(* connections createConnection made, the reconnect timers that are        *)
(* pending, and, as history, whether disconnect() was called and every     *)
(* timer that was scheduled.  The socket events and the outcome of         *)
(* resolveUrl are the environment's.                                       *)
(***************************************************************************)
\* most connections created for one service
MaxConnections == 3

\* createConnection(urlParts)
createConnection(t) ==
  [t EXCEPT !.conns = Append(@, [ state |-> "connecting", ended |-> FALSE,
                                   late |-> t.disconnectCalled ]),
            !.connection = Len(t.conns) + 1]

\* setTimeout(() => createConnection(urlParts), retry_max_delay)
setTimeout(t, cause) ==
  [t EXCEPT !.timers = @ + 1,
            !.scheduled = Append(@, [ cause |-> cause,
                                      flagged |-> t.isDisconnected ])]

\* this._connection.end()
connectionEnd(t) == [t EXCEPT !.conns[t.connection].ended = TRUE]

InitThrift ==
  /\ HashIdle
  /\ ProcessAtLoad
  /\ TraceIdle
  /\ DataIdle /\ LoggerIdle /\ AdapterIdle
  /\ WrapIdle /\ KafkaIdle
  /\ mongo = NoClient
  /\ redis = NoClient
  /\ \E hasPort \in BOOLEAN :
       thrift = [ on |-> TRUE, hasPort |-> hasPort, pc |-> "new",
                  promise |-> "none", isDisconnected |-> FALSE,
                  disconnectCalled |-> FALSE, connection |-> 0,
                  conns |-> <<>>, timers |-> 0, scheduled |-> <<>> ]

ThriftFrame ==
  /\ UNCHANGED <<mongo, redis>>
  /\ UNCHANGED pvars
  /\ UNCHANGED hvars
  /\ UNCHANGED tvars
  /\ UNCHANGED dvars
  /\ UNCHANGED lvars
  /\ UNCHANGED svars
  /\ UNCHANGED wvars
  /\ UNCHANGED kvars

\* service.connect(url): with a port the connection is created at once,
\* without one resolveUrl is awaited
ThriftConnect ==
  /\ thrift.pc = "new"
  /\ thrift' = IF thrift.hasPort
               THEN createConnection([thrift EXCEPT !.pc = "created",
                                                    !.promise = "pending"])
               ELSE [thrift EXCEPT !.pc = "resolving", !.promise = "pending"]
  /\ ThriftFrame

\* resolveUrl(hostname) resolves
ResolveUrlResolves ==
  /\ thrift.pc = "resolving"
  /\ Len(thrift.conns) < MaxConnections
  /\ thrift' = createConnection([thrift EXCEPT !.pc = "created"])
  /\ ThriftFrame

\* resolveUrl(hostname) rejects: the catch handler logs the error
ResolveUrlRejects ==
  /\ thrift.pc = "resolving"
  /\ thrift' = [thrift EXCEPT !.pc = "unresolved"]
  /\ ThriftFrame

\* the "connect" event of connection i: resolve()
SocketConnect ==
  /\ \E i \in 1..Len(thrift.conns) :
       /\ thrift.conns[i].state = "connecting"
       /\ thrift' = [thrift EXCEPT
            !.conns[i].state = "connected",
            !.promise = IF @ = "pending" THEN "resolved" ELSE @]
  /\ ThriftFrame

\* the "end" event of the socket of connection i
SocketEnd ==
  /\ \E i \in 1..Len(thrift.conns) :
       /\ thrift.conns[i].state # "closed"
       /\ \E t \in {[thrift EXCEPT !.conns[i].state = "closed"]} :
            thrift' = IF ~t.isDisconnected THEN setTimeout(t, "end") ELSE t
  /\ ThriftFrame

\* the "error" event of connection i with code ECONNREFUSED
SocketRefused ==
  /\ \E i \in 1..Len(thrift.conns) :
       /\ thrift.conns[i].state = "connecting"
       /\ \E t \in {[thrift EXCEPT !.conns[i].state = "closed"]} :
            thrift' = setTimeout(connectionEnd(t), "refused")
  /\ ThriftFrame

\* a reconnect timer fires
TimerFires ==
  /\ thrift.on
  /\ thrift.timers > 0
  /\ Len(thrift.conns) < MaxConnections
  /\ thrift' = createConnection([thrift EXCEPT !.timers = @ - 1])
  /\ ThriftFrame

\* service.disconnect()
ThriftDisconnect ==
  /\ thrift.on
  /\ ~thrift.disconnectCalled
  /\ thrift.pc # "new"
  /\ thrift' = IF thrift.connection # 0
               THEN connectionEnd([thrift EXCEPT
                                     !.isDisconnected = TRUE,
                                     !.disconnectCalled = TRUE])
               ELSE [thrift EXCEPT !.disconnectCalled = TRUE]
  /\ ThriftFrame

NextThrift ==
  \/ ThriftConnect
  \/ ResolveUrlResolves
  \/ ResolveUrlRejects
  \/ SocketConnect
  \/ SocketEnd
  \/ SocketRefused
  \/ TimerFires
  \/ ThriftDisconnect

SpecThrift == InitThrift /\ [][NextThrift]_vars

\* C36: after disconnect() has been called no new connection is ever
\* created: createConnection is not invoked again when a socket "end"
\* event or an ECONNREFUSED "error" event arrives afterwards, nor when a
\* reconnect timer scheduled before the disconnect fires
C36_NoConnectionAfterDisconnect ==
  thrift.on => \A i \in 1..Len(thrift.conns) : ~thrift.conns[i].late

\* once the flag is set, an "end" event schedules no reconnect
C36_EndAfterDisconnectSchedulesNothing ==
  thrift.on =>
    \A k \in 1..Len(thrift.scheduled) :
      thrift.scheduled[k].cause = "end" => ~thrift.scheduled[k].flagged

(***************************************************************************)
(* The same service when what is pending does happen: the promise of       *)
(* resolveUrl settles, a connection that is being made connects or fails,  *)
(* a timer that was set fires.                                             *)
(***************************************************************************)
FairThrift ==
  /\ SpecThrift
  /\ WF_vars(ThriftConnect)
  /\ WF_vars(ResolveUrlResolves \/ ResolveUrlRejects)
  /\ WF_vars(SocketConnect \/ SocketRefused)
  /\ WF_vars(TimerFires)

\* C39: every call of connect(url) whose target cannot be reached at all
\* eventually settles: when the url has no port and resolving the service
\* address fails, the returned promise resolves or rejects instead of
\* staying pending forever
C39_UnresolvedConnectSettles ==
  (thrift.on /\ thrift.pc = "unresolved") ~> (thrift.promise # "pending")

\* a connect whose connection is created and comes up resolves
C39_ConnectedResolves ==
  thrift.on =>
    \A i \in 1..Len(thrift.conns) :
      thrift.conns[i].state = "connected" => thrift.promise = "resolved"

(***************************************************************************)
(* MongoClient.  mongo holds _internalClient (0 for none, else the number  *)
(* of the driver's client), _db, how often driver.connect was invoked, and *)
(* the calls of connect: where each stands (at the await of                *)
(* driver.connect, or done), what it returned, and as history what it saw  *)
(* on entry and how many disconnects preceded it.  The url has a port and  *)
(* the driver's connect and close succeed.                                 *)
(***************************************************************************)
\* most calls of connect on one client
MaxConnectCalls == 3

\* most calls of disconnect on one client
MaxDisconnects == 1

\* this._internalClient.db(dbName)
selectDb(client, dbName) == [t |-> "db", client |-> client, name |-> dbName]

InitMongo ==
  /\ HashIdle
  /\ ProcessAtLoad
  /\ TraceIdle
  /\ DataIdle /\ LoggerIdle /\ AdapterIdle
  /\ WrapIdle /\ KafkaIdle
  /\ thrift = NoClient
  /\ redis = NoClient
  /\ mongo = [ on |-> TRUE, internalClient |-> 0, db |-> Undefined,
               driverConnects |-> 0, closing |-> FALSE, disconnects |-> 0,
               calls |-> <<>> ]

MongoFrame ==
  /\ UNCHANGED <<thrift, redis>>
  /\ UNCHANGED pvars
  /\ UNCHANGED hvars
  /\ UNCHANGED tvars
  /\ UNCHANGED dvars
  /\ UNCHANGED lvars
  /\ UNCHANGED svars
  /\ UNCHANGED wvars
  /\ UNCHANGED kvars

\* client.connect({url, dbName}) up to its return or to the await of
\* driver.connect(fullUrl)
MongoConnect ==
  /\ mongo.on
  /\ Len(mongo.calls) < MaxConnectCalls
  /\ mongo' =
       IF mongo.internalClient # 0
       THEN [mongo EXCEPT !.calls = Append(@,
               [ pc |-> "done", ret |-> mongo.db, drove |-> 0,
                 sawClient |-> mongo.internalClient, sawDb |-> mongo.db,
                 after |-> mongo.disconnects ])]
       ELSE [mongo EXCEPT
               !.driverConnects = @ + 1,
               !.calls = Append(@,
                 [ pc |-> "connecting", ret |-> Undefined,
                   drove |-> mongo.driverConnects + 1,
                   sawClient |-> 0, sawDb |-> mongo.db,
                   after |-> mongo.disconnects ])]
  /\ MongoFrame

\* driver.connect resolves for call c: _internalClient and _db are set and
\* the call returns this._db
DriverConnected ==
  /\ mongo.on
  /\ \E c \in 1..Len(mongo.calls) :
       /\ mongo.calls[c].pc = "connecting"
       /\ \E db \in {selectDb(mongo.calls[c].drove, "d")} :
            mongo' = [mongo EXCEPT
                        !.internalClient = mongo.calls[c].drove,
                        !.db = db,
                        !.calls[c].pc = "done",
                        !.calls[c].ret = db]
  /\ MongoFrame

\* client.disconnect() up to the await of _internalClient.close()
MongoDisconnect ==
  /\ mongo.on
  /\ mongo.disconnects < MaxDisconnects
  /\ ~mongo.closing
  /\ mongo' = [mongo EXCEPT !.disconnects = @ + 1,
                            !.closing = mongo.internalClient # 0]
  /\ MongoFrame

\* close() resolves: this._internalClient = null
DriverClosed ==
  /\ mongo.on
  /\ mongo.closing
  /\ mongo' = [mongo EXCEPT !.closing = FALSE, !.internalClient = 0]
  /\ MongoFrame

NextMongo == MongoConnect \/ DriverConnected \/ MongoDisconnect \/ DriverClosed

SpecMongo == InitMongo /\ [][NextMongo]_vars

\* calls a and b of connect have no disconnect between them
NoDisconnectBetween(a, b) == mongo.calls[a].after = mongo.calls[b].after

\* C37: across any interleaving of connect() calls on one MongoClient with
\* no intervening disconnect, including calls that overlap before the first
\* one has completed, driver.connect is invoked at most once and every call
\* returns the same db; after disconnect() a later connect() opens a new
\* connection
C37_ConnectOnce ==
  mongo.on =>
    /\ \A a, b \in 1..Len(mongo.calls) :
         NoDisconnectBetween(a, b) =>
           /\ (mongo.calls[a].drove # 0 /\ mongo.calls[b].drove # 0) => a = b
           /\ (mongo.calls[a].pc = "done" /\ mongo.calls[b].pc = "done")
                => mongo.calls[a].ret = mongo.calls[b].ret
    /\ \A a, b \in 1..Len(mongo.calls) :
         ( /\ mongo.calls[a].drove # 0
           /\ mongo.calls[a].after < mongo.calls[b].after
           /\ mongo.calls[b].sawClient = 0 )
           => mongo.calls[b].drove # 0

\* a connect() that finds the client connected does not invoke
\* driver.connect and returns the db it finds, and one that finds it not
\* connected invokes driver.connect
C37_ConnectedClientReused ==
  mongo.on =>
    \A c \in 1..Len(mongo.calls) :
      IF mongo.calls[c].sawClient # 0
      THEN /\ mongo.calls[c].drove = 0
           /\ mongo.calls[c].ret = mongo.calls[c].sawDb
      ELSE mongo.calls[c].drove # 0

(***************************************************************************)
(* RedisClient.createDriver.  redis holds the static RedisClient._drivers  *)
(* (its keys in order, each with the number of the driver stored), how     *)
(* many drivers new Redis(...) made, and the calls of createDriver.  A     *)
(* string the code splits or builds is the sequence of its parts.          *)
(***************************************************************************)
\* most calls of createDriver in the process
MaxDriverCalls == 3

\* `${x}` for a string, a number, or undefined
Interpolate(x) == IF x.t \in {"string", "number"} THEN x.v ELSE x.t

RedisConfig(url, host, port) ==
  Obj(Field("url", url) @@ Field("host", host) @@ Field("port", port))

\* the configurations clients are made with, in a sequence: two endpoints,
\* each given as url and as host and port
RedisConfigs ==
  << RedisConfig(Str(<<"h1", ":", "6379">>), Absent, Absent),
     RedisConfig(Str(<<"h2", ":", "6379">>), Absent, Absent),
     RedisConfig(Absent, Str("h1"), Num("6379")),
     RedisConfig(Absent, Str("h2"), Num("6379")) >>

\* const url = config.url ?? `${config.host}:${config.port}`
redisUrl(config) ==
  Coalesce(Get(config, "url"),
           Str(<<Interpolate(Get(config, "host")), ":",
                 Interpolate(Get(config, "port"))>>))

\* getUrlParts(url) for "hostname:port" and for a bare hostname
getUrlParts(url) ==
  Only({ IF Len(parts) = 2
         THEN [hostname |-> Str(parts[1][1]), port |-> Num(parts[2][1])]
         ELSE [hostname |-> Str(parts[1][1]), port |-> Null] :
           parts \in {Split(url.v, ":")} })

\* const hostId = `${config.host}:${config.port}`
hostIdOf(config) ==
  <<Interpolate(Get(config, "host")), ":", Interpolate(Get(config, "port"))>>

\* the driver stored under hostId, 0 for none
CachedDriver(r, hostId) ==
  IF \E k \in 1..Len(r.drivers) : r.drivers[k].hostId = hostId
  THEN r.drivers[CHOOSE k \in 1..Len(r.drivers) :
                   r.drivers[k].hostId = hostId].driver
  ELSE 0

\* createDriver(config), resolveUrlPort resolving to the parts of the url
\* or rejecting: RedisClient after the call
createDriver(r, config, resolves) ==
  Only({ IF CachedDriver(r, hostIdOf(config)) # 0
         THEN [r EXCEPT !.calls = Append(@,
                 [ config |-> config,
                   driver |-> CachedDriver(r, hostIdOf(config)),
                   made |-> FALSE ])]
         ELSE [r EXCEPT
                 !.made = Append(@, [ host |-> urlParts.hostname,
                                      port |-> urlParts.port ]),
                 !.drivers = Append(@, [ hostId |-> hostIdOf(config),
                                         driver |-> Len(r.made) + 1 ]),
                 !.calls = Append(@,
                   [ config |-> config, driver |-> Len(r.made) + 1,
                     made |-> TRUE ])] :
           urlParts \in { IF resolves THEN getUrlParts(redisUrl(config))
                          ELSE getUrlParts(Str(<<"url">>)) } })

InitRedis ==
  /\ HashIdle
  /\ ProcessAtLoad
  /\ TraceIdle
  /\ DataIdle /\ LoggerIdle /\ AdapterIdle
  /\ WrapIdle /\ KafkaIdle
  /\ thrift = NoClient
  /\ mongo = NoClient
  /\ redis = [on |-> TRUE, drivers |-> <<>>, made |-> <<>>, calls |-> <<>>]

\* new RedisClient(config): init calls createDriver(config)
RedisCreateDriver ==
  /\ redis.on
  /\ Len(redis.calls) < MaxDriverCalls
  /\ \E c \in 1..Len(RedisConfigs), resolves \in BOOLEAN :
       redis' = createDriver(redis, RedisConfigs[c], resolves)
  /\ UNCHANGED <<thrift, mongo>>
  /\ UNCHANGED pvars
  /\ UNCHANGED hvars
  /\ UNCHANGED tvars
  /\ UNCHANGED dvars
  /\ UNCHANGED lvars
  /\ UNCHANGED svars
  /\ UNCHANGED wvars
  /\ UNCHANGED kvars

NextRedis == RedisCreateDriver

SpecRedis == InitRedis /\ [][NextRedis]_vars

\* the endpoint a configuration designates: the host and the port of its
\* url, or its host and port
EndpointOf(config) ==
  IF Get(config, "url") # Undefined
  THEN <<Get(config, "url").v[1], Get(config, "url").v[3]>>
  ELSE <<Get(config, "host").v, Get(config, "port").v>>

\* C38: createDriver returns a cached driver only for a configuration that
\* designates the same Redis endpoint: two clients configured with
\* different endpoints (different url values, or different host/port)
\* never share a driver, and two configurations of the same endpoint reuse
\* one driver
C38_DriverPerEndpoint ==
  redis.on =>
    \A a, b \in 1..Len(redis.calls) :
      (redis.calls[a].driver = redis.calls[b].driver)
        <=> (EndpointOf(redis.calls[a].config)
               = EndpointOf(redis.calls[b].config))

\* the same for configurations that give host and port and no url
C38_DriverPerHostAndPort ==
  redis.on =>
    \A a, b \in 1..Len(redis.calls) :
      ( /\ Get(redis.calls[a].config, "url") = Undefined
        /\ Get(redis.calls[b].config, "url") = Undefined ) =>
        ( (redis.calls[a].driver = redis.calls[b].driver)
            <=> (EndpointOf(redis.calls[a].config)
                   = EndpointOf(redis.calls[b].config)) )

====
